---- MODULE Spec2Model ----
(***************************************************************************)
(* Model of the compositor renderer of Monado                              *)
(* (src/xrt/compositor/main: comp_renderer_draw and its helpers, the       *)
(* target interface it drives, and the scratch frame state it brackets).   *)
(*                                                                         *)
(* One rendering thread runs comp_renderer_draw to completion; its         *)
(* position is pc.  The GPU (queue) and the target's readiness change      *)
(* concurrently with it.                                                   *)
(***************************************************************************)
EXTENDS Integers, Sequences, FiniteSets, TLC

\* ---------------------------------------------------------------- bounds
\* Frame ids handed out by the frame loop are 0 .. MaxFrames-1.
MaxFrames == 2
\* The target's backend creates MaxImages images per create_images.
MaxImages == 2
\* Number of views of the render resources (c->nr.view_count).
ViewCount == 1

\* c->frame_interval_ns, in time units.
FrameIntervalNs == 3

\* Ring size of one scratch image set.
COMP_SCRATCH_NUM_IMAGES == 3

\* Largest view_count chl_scratch_ensure is called with (at most the size of
\* chl_scratch.views).
MaxScratchViews == 2

\* Number of images a debug image target hands out in its lifetime.
MaxCycles == 5
\* Longest format list handed to a target's create_images.
MaxFormats == 2

VARIABLES
    settings,    \* r->settings: [use_compute]
    pc,          \* position of the rendering thread
    acq_ret,     \* caller of renderer_acquire_swapchain_image: "draw" / "wfp"
    frame,       \* c->frame: [waited, rendering], -1 is the invalid id
    next_id,     \* next frame id the frame loop hands out
    r,           \* struct comp_renderer
    ct,          \* struct comp_target, as the renderer sees it
    queue,       \* submissions the GPU has not completed yet
    scratch,     \* c->scratch: per view [current, last]
    frame_state, \* chl_frame_state of the draw in progress
    local,       \* locals of comp_renderer_draw
    acq,         \* record of the renderer_acquire_swapchain_image call the
                 \* draw in progress made, kept while its image is in use
    log,         \* record of the calls of the draw in progress / the last draw
    draw_ret,    \* what the last comp_renderer_draw returned
    hist,        \* the timeline signal values the queue (submitted) and
                 \* the target's present (presented) were handed so far
    chl,         \* struct chl_scratch (c->scratch): the recorded
                 \* configuration and the Vulkan resources it holds
    chl_calls,   \* record of the last two calls made on chl (ensure and
                 \* free_resources)
    dit,         \* struct debug_image_target, when the target is one
    dit_log,     \* record of the calls made on dit
    peek,        \* struct comp_window_peek (c->peek), the locks it takes
    peek_log,    \* record of what comp_window_peek_blit did
    lag,         \* the clock readings of renderer_wait_for_present and its warning
    uls,         \* struct u_live_stats_ns and what u_ls_ns_get_and_reset gave last
    rift,        \* one rift_send_report call: arguments, buffer, what was sent
    fault        \* first assertion that failed, "none" otherwise; the
                 \* thread goes on after it only where assert() is compiled
                 \* out (NDEBUG)

vars == <<settings, pc, acq_ret, frame, next_id, r, ct, queue, scratch,
          frame_state, local, acq, log, draw_ret, hist, chl, chl_calls,
          dit, dit_log, peek, peek_log, lag, uls, rift, fault>>

\* ---------------------------------------------------------------- values
INVALID == -1

Views == 0 .. (ViewCount - 1)

VkSuccess == "VK_SUCCESS"
VkOutOfDate == "VK_ERROR_OUT_OF_DATE_KHR"
VkSuboptimal == "VK_SUBOPTIMAL_KHR"
VkDeviceLost == "VK_ERROR_DEVICE_LOST"
VkTimeout == "VK_TIMEOUT"

\* The results the renderer treats as a stale swapchain (lines 1121, 1176).
Stale == {VkOutOfDate, VkSuboptimal}

\* What a target's acquire and present can return.
AcquireResults == {VkSuccess, VkOutOfDate, VkSuboptimal, VkDeviceLost}
PresentResults == {VkSuccess, VkOutOfDate, VkSuboptimal, VkDeviceLost}
\* What vkResetFences / vkQueueSubmit can return.
SubmitResults == {VkSuccess, VkDeviceLost}
\* What wait_for_present can return when it is supported.
WaitResults == {VkSuccess, VkTimeout}

XrtSuccess == "XRT_SUCCESS"
XrtErrorVulkan == "XRT_ERROR_VULKAN"

\* A call made during a draw: its result, the image/buffer index and the
\* frame id it was given, and whether the fence it touched was still to be
\* signaled by a pending submission.
EvBusy(op, res, idx, id, busy) ==
    [op |-> op, res |-> res, idx |-> idx, id |-> id, busy |-> busy]

Ev(op, res, idx, id) == EvBusy(op, res, idx, id, FALSE)

\* The calls a draw's record counts.
Ops == {"check_ready", "create_images", "destroy_fences", "queue_wait_idle",
        "wait_fence", "frame_state_init", "dispatch_compute",
        "dispatch_graphics", "reset_fences", "queue_submit", "present",
        "clear_rendering", "frame_state_fini", "info_gpu",
        "wait_for_present"}
Marks == {"mark_begin", "mark_submit_begin", "mark_submit_end"}

\* The calls whose result, image index and frame id the record keeps.
\* The calls and marks that are stages of a frame; the record keeps their
\* order.
StageOps == {"mark_begin", "acquire", "mark_submit_begin", "queue_submit",
             "mark_submit_end", "present", "clear_rendering",
             "queue_wait_idle", "wait_for_present"}

ResOps == {"check_ready", "destroy_fences", "reset_fences", "queue_submit",
           "present", "wait_for_present"}
\* The check of line 1190, which the record of the stages keeps as well.
StageResOps == ResOps \cup {"wfp_check_ready"}
IdxOps == {"wait_fence", "dispatch_compute", "dispatch_graphics",
           "reset_fences", "queue_submit", "present"}
IdOps == {"frame_state_init", "queue_submit", "present", "clear_rendering",
          "frame_state_fini", "info_gpu"}

\* What a behaviour keeps a record of (mode): "calls", the calls of one
\* draw: how often each was made, the last result, index and frame id of
\* those that have one, the timing marks in order, and whether a fence was
\* reset or submitted while busy; "stages", the stages of one draw in order
\* and the results; "history", the signal values handed to the queue and to
\* present over all draws.  The record is reset at every round; nothing the
\* program does depends on it.
NoLog(mode) ==
    [mode |-> mode, n |-> [o \in Ops |-> 0], res |-> [o \in StageResOps |-> ""],
     idx |-> [o \in IdxOps |-> INVALID], id |-> [o \in IdOps |-> INVALID],
     marks |-> <<>>, order |-> <<>>, timeout |-> INVALID, busy |-> FALSE]

Record(l, e) ==
    IF l.mode = "calls"
    THEN IF e.op \in Marks
         THEN [l EXCEPT !.marks = Append(@, <<e.op, e.id>>)]
         ELSE [l EXCEPT
                 !.n = IF e.op \in Ops THEN [@ EXCEPT ![e.op] = @ + 1] ELSE @,
                 !.res = IF e.op \in ResOps THEN [@ EXCEPT ![e.op] = e.res] ELSE @,
                 !.idx = IF e.op \in IdxOps THEN [@ EXCEPT ![e.op] = e.idx] ELSE @,
                 !.id = IF e.op \in IdOps THEN [@ EXCEPT ![e.op] = e.id] ELSE @,
                 !.timeout = IF e.op = "wait_for_present" THEN e.idx ELSE @,
                 !.busy = @ \/ e.busy]
    ELSE IF l.mode = "stages"
    THEN [l EXCEPT
            !.order = IF e.op \in StageOps THEN Append(@, e.op) ELSE @,
            !.res = IF e.op \in StageResOps THEN [@ EXCEPT ![e.op] = e.res] ELSE @,
            !.timeout = IF e.op = "wait_for_present" THEN e.idx ELSE @]
    ELSE l

\* The world the renderer's helpers read and write.
\* in_acquire: the calls are made inside renderer_acquire_swapchain_image and
\* are counted in its record, acq, instead of the draw's.
World(in_acquire) ==
    [r |-> r, ct |-> ct, queue |-> queue, log |-> log, fault |-> fault,
     acq |-> acq, hist |-> hist, ret |-> TRUE, in_acquire |-> in_acquire]

\* Nothing was submitted or presented yet.
NoHist == [submitted |-> <<>>, presented |-> <<>>]

\* The signal value of a queue submission or a present joins the history.
Handed(h, e) ==
    IF e.op = "queue_submit" THEN [h EXCEPT !.submitted = Append(@, e.id)]
    ELSE IF e.op = "present" THEN [h EXCEPT !.presented = Append(@, e.id)]
    ELSE h

Logged(w, e) ==
    IF w.in_acquire THEN [w EXCEPT !.acq.n[e.op] = @ + 1]
    ELSE [w EXCEPT !.log = Record(@, e),
                   !.hist = IF w.log.mode = "history" THEN Handed(@, e) ELSE @]

\* assert(cond): the first failing assertion is remembered.
Assert_(w, cond, what) ==
    IF cond \/ w.fault # "none" THEN w ELSE [w EXCEPT !.fault = what]

\* ------------------------------------------------------------ comp_frame
comp_frame_is_invalid_locked(f) == f = INVALID

comp_frame_move_and_clear_locked(fr) ==
    [fr EXCEPT !.rendering = fr.waited, !.waited = INVALID]

\* The rendering slot is made invalid.
comp_frame_clear_locked(fr) == [fr EXCEPT !.rendering = INVALID]

\* ------------------------------------------------------------- the queue
\* A submission is [fence, id, live]: live is FALSE once its fence has been
\* destroyed under it.
Complete(w, s) ==
    [w EXCEPT !.queue = @ \ {s},
              !.r.fences = IF s.live /\ s.fence + 1 \in DOMAIN @
                           THEN [@ EXCEPT ![s.fence + 1] = "signaled"]
                           ELSE @]

\* A drain in which the completed submissions signal no fence.
Drained_unsignaled(w) == [w EXCEPT !.queue = {}]

\* The state once every pending submission has completed.
Drained(w) ==
    [w EXCEPT !.queue = {},
              !.r.fences = [i \in DOMAIN @ |->
                               IF \E s \in w.queue : s.live /\ s.fence + 1 = i
                               THEN "signaled" ELSE @[i]]]

\* vkQueueWaitIdle under the queue mutex: returns once the queue is idle.
renderer_wait_queue_idle(w) ==
    Logged(Drained(w), Ev("queue_wait_idle", "", INVALID, INVALID))

\* ------------------------------------------------ renderings and fences
renderer_create_renderings_and_fences(w0) ==
    LET w == Assert_(w0, w0.r.fences = <<>>, "fences_not_null") IN
    IF w.r.buffer_count = 0 THEN w
    ELSE [w EXCEPT
            !.r.rtr_array = IF settings.use_compute THEN @ ELSE w.r.buffer_count,
            !.r.fences = [i \in 1 .. w.r.buffer_count |-> "signaled"]]

\* A close that leaves acquired_buffer and fenced_buffer as they are.
renderer_close_keeps_indices(w) ==
    LET destroys == w.r.buffer_count > 0 /\ w.r.fences # <<>>
    IN [w EXCEPT
          !.r.rtr_array = IF w.r.buffer_count > 0 THEN 0 ELSE @,
          !.r.fences = IF destroys THEN <<>> ELSE @,
          !.queue = IF destroys THEN {[s EXCEPT !.live = FALSE] : s \in @} ELSE @,
          !.r.buffer_count = 0]

\* Lines 810-840.
renderer_close_renderings_and_fences(w) ==
    LET destroys == w.r.buffer_count > 0 /\ w.r.fences # <<>>
        w1 == IF destroys
              THEN Logged(w, Ev("destroy_fences",
                                IF w.queue # {} THEN "in_use" ELSE "idle",
                                w.r.buffer_count, INVALID))
              ELSE w
    IN [w1 EXCEPT
          !.r.rtr_array = IF w.r.buffer_count > 0 THEN 0 ELSE @,
          !.r.fences = IF destroys THEN <<>> ELSE @,
          !.queue = IF destroys THEN {[s EXCEPT !.live = FALSE] : s \in @} ELSE @,
          !.r.buffer_count = 0,
          !.r.acquired_buffer = INVALID,
          !.r.fenced_buffer = INVALID]

\* comp_target_create_images: the target (re)creates its images.
comp_target_create_images(w) ==
    Logged([w EXCEPT !.ct.has_images = TRUE, !.ct.image_count = MaxImages],
           Ev("create_images", "", MaxImages, INVALID))

\* A create decision that ignores what the target and the renderer have.
create_always(w, force_recreate) == TRUE

\* Line 865: whether images and renderings are (re)created.
create(w, force_recreate) ==
    force_recreate \/ ~w.ct.has_images \/ w.r.buffer_count = 0

\* dist_ok: what render_distortion_images_ensure returns.  The result is
\* in .ret.
renderer_ensure_images_and_renderings(w, force_recreate, dist_ok) ==
    IF ~w.ct.ready THEN [w EXCEPT !.ret = FALSE]
    ELSE IF ~create(w, force_recreate)
    THEN [w EXCEPT !.ret = TRUE]
    ELSE LET w1 == renderer_wait_queue_idle(w)
             w2 == renderer_close_renderings_and_fences(w1)
             w3 == comp_target_create_images(w2)
         IN IF ~dist_ok THEN [w3 EXCEPT !.ret = FALSE]
            ELSE LET w4 == [w3 EXCEPT !.r.buffer_count = w3.ct.image_count]
                     w5 == renderer_create_renderings_and_fences(w4)
                     w6 == Assert_(w5, w5.r.buffer_count # 0, "buffer_count_zero")
                 IN [w6 EXCEPT !.ret = TRUE]

\* ---------------------------------------------------- scratch allocation
\* struct chl_scratch, lines 576-604.  live is the set of Vulkan resources
\* the structure holds: the shared render pass, each view's images (cssi)
\* and each view's render targets.
VK_FORMAT_UNDEFINED == "VK_FORMAT_UNDEFINED"
VK_FORMAT_R8G8B8A8_SRGB == "VK_FORMAT_R8G8B8A8_SRGB"
VK_FORMAT_R8G8B8A8_UNORM == "VK_FORMAT_R8G8B8A8_UNORM"

Extent(width, height) == [width |-> width, height |-> height]

RenderPass == [kind |-> "render_pass", view |-> INVALID, k |-> INVALID]
Images(i) == [kind |-> "images", view |-> i, k |-> INVALID]
Target(i, k) == [kind |-> "target", view |-> i, k |-> k]

\* chl_scratch_init on the zeroed compositor: no view has resources.
chl_scratch_init ==
    [view_count |-> 0, extent |-> Extent(0, 0), format |-> VK_FORMAT_UNDEFINED,
     render_pass_initialized |-> FALSE, live |-> {}]

\* One call on the structure: c is the structure, ev the resources the call
\* created and released, in order, ret what it returned.
Entered(c) == [c |-> c, ev |-> <<>>, ret |-> TRUE]

Allocated(cx, res) ==
    [cx EXCEPT !.c.live = @ \cup {res},
               !.ev = Append(@, [act |-> "alloc", res |-> res,
                                 held |-> res \in cx.c.live])]

Released(cx, res) ==
    [cx EXCEPT !.c.live = @ \ {res},
               !.ev = Append(@, [act |-> "free", res |-> res,
                                 held |-> res \in cx.c.live])]

\* Lines 874-880: the targets of view i, then its images, for i from the
\* given view up to view_count.
\* A view whose targets are left as they are.
free_targets_none(cx, i, k) == cx

RECURSIVE free_targets(_, _, _)
free_targets(cx, i, k) ==
    IF k >= COMP_SCRATCH_NUM_IMAGES THEN cx
    ELSE free_targets(Released(cx, Target(i, k)), i, k + 1)

RECURSIVE free_views(_, _)
free_views(cx, i) ==
    IF i >= cx.c.view_count THEN cx
    ELSE free_views(Released(free_targets(cx, i, 0), Images(i)), i + 1)

\* The behaviour the frame-effect description gives: the resources go, the
\* recorded configuration stays.
chl_scratch_free_resources_keeping(cx) ==
    LET cx1 == free_views(cx, 0)
    IN IF cx1.c.render_pass_initialized
       THEN [Released(cx1, RenderPass) EXCEPT !.c.render_pass_initialized = FALSE]
       ELSE cx1

\* Lines 869-893.
chl_scratch_free_resources(cx) ==
    LET cx1 == free_views(cx, 0)
        cx2 == [cx1 EXCEPT !.c.view_count = 0,
                           !.c.extent = Extent(0, 0),
                           !.c.format = VK_FORMAT_UNDEFINED]
    IN IF cx2.c.render_pass_initialized
       THEN [Released(cx2, RenderPass) EXCEPT !.c.render_pass_initialized = FALSE]
       ELSE cx2

\* The test of lines 793-797 answering "no" every time.
chl_scratch_is_correct_never(c, view_count, extent, format) == FALSE

\* Lines 793-797: is everything already correct?
chl_scratch_is_correct(c, view_count, extent, format) ==
    /\ c.view_count = view_count
    /\ c.extent.width = extent.width
    /\ c.extent.height = extent.height
    /\ c.format = format

\* Returning false at lines 832-837 without freeing.
chl_scratch_images_failed_leaking(cx) == [cx EXCEPT !.ret = FALSE]

\* Lines 832-837: a view's images could not be created.
chl_scratch_images_failed(cx) ==
    [chl_scratch_free_resources(cx) EXCEPT !.ret = FALSE]

\* Lines 839-853: the targets of view i on its freshly created images.
RECURSIVE init_targets(_, _, _)
init_targets(cx, i, k) ==
    IF k >= COMP_SCRATCH_NUM_IMAGES THEN cx
    ELSE init_targets(Allocated(cx, Target(i, k)), i, k + 1)

\* Lines 822-860, from view i on.  images_fail_at is the view whose
\* comp_scratch_single_images_ensure[_mutable] returns false (none when it
\* is not below view_count).  Both creation functions leave the images in
\* the same cssi, released by the same comp_scratch_single_images_free.
RECURSIVE ensure_views(_, _, _, _)
ensure_views(cx, i, view_count, images_fail_at) ==
    IF i >= view_count THEN cx
    ELSE IF i = images_fail_at THEN chl_scratch_images_failed(cx)
    ELSE LET cx1 == init_targets(Allocated(cx, Images(i)), i, 0)
         IN ensure_views([cx1 EXCEPT !.c.view_count = i + 1], i + 1,
                         view_count, images_fail_at)

\* An ensure that allocates over what the structure holds, without the
\* chl_scratch_free_resources of line 801.
chl_scratch_ensure_over(cx, view_count, extent, format, render_pass_ok, images_fail_at) ==
    IF chl_scratch_is_correct(cx.c, view_count, extent, format)
    THEN [cx EXCEPT !.ret = TRUE]
    ELSE IF ~render_pass_ok THEN [cx EXCEPT !.ret = FALSE]
    ELSE LET cx2 == [Allocated(cx, RenderPass)
                       EXCEPT !.c.render_pass_initialized = TRUE]
             cx3 == ensure_views(cx2, 0, view_count, images_fail_at)
         IN IF ~cx3.ret THEN cx3
            ELSE [cx3 EXCEPT !.c.extent = extent,
                             !.c.format = format,
                             !.ret = TRUE]

\* Lines 783-867.  render_pass_ok is what render_gfx_render_pass_init
\* returns.
chl_scratch_ensure(cx, view_count, extent, format, render_pass_ok, images_fail_at) ==
    IF chl_scratch_is_correct(cx.c, view_count, extent, format)
    THEN [cx EXCEPT !.ret = TRUE]
    ELSE LET cx1 == chl_scratch_free_resources(cx)
         IN IF ~render_pass_ok THEN [cx1 EXCEPT !.ret = FALSE]
            ELSE LET cx2 == [Allocated(cx1, RenderPass)
                               EXCEPT !.c.render_pass_initialized = TRUE]
                     cx3 == ensure_views(cx2, 0, view_count, images_fail_at)
                 IN IF ~cx3.ret THEN cx3
                    ELSE [cx3 EXCEPT !.c.extent = extent,
                                     !.c.format = format,
                                     !.ret = TRUE]

\* The record of a call: what it was called with, the structure it found,
\* what it did and returned.
NoArgs == [view_count |-> 0, extent |-> Extent(0, 0),
           format |-> VK_FORMAT_UNDEFINED]

NoCall == [op |-> "none", args |-> NoArgs, ret |-> TRUE, allocated |-> FALSE]

AllocatedIn(ev) == \E j \in DOMAIN ev : ev[j].act = "alloc"

\* last is the call just made; before is the call made before it, without
\* the structure it found and the list of what it did.
ScratchCalled(op, args, cx) ==
    /\ chl' = cx.c
    /\ chl_calls' = [before |-> [op |-> chl_calls.last.op,
                                 args |-> chl_calls.last.args,
                                 ret |-> chl_calls.last.ret,
                                 allocated |-> AllocatedIn(chl_calls.last.ev)],
                     last |-> [op |-> op, args |-> args, pre |-> chl,
                               ev |-> cx.ev, ret |-> cx.ret]]

NoCalls ==
    [before |-> NoCall,
     last |-> [op |-> "none", args |-> NoArgs, pre |-> chl_scratch_init,
               ev |-> <<>>, ret |-> TRUE]]

\* Lines 934-954: the scratch images renderer_init ensures, one per view of
\* the render resources, in the mutable format.
scratch_extent == Extent(1, 1)

\* ------------------------------------- targets and windows not in use
\* No debug image target: the compositor's target is another one (or the
\* debug image target was destroyed and its memory freed).
NoTarget ==
    [alive |-> FALSE, has_init_vulkan |-> FALSE, index |-> INVALID,
     target |-> [current |-> INVALID, last |-> INVALID,
                 images |-> FALSE, state |-> "none"],
     image_count |-> 0, images |-> FALSE, view |-> "none",
     width |-> 0, height |-> 0, format |-> VK_FORMAT_UNDEFINED,
     upc |-> "none"]

\* the locals of one comp_window_peek_blit call
NoBlit == [extent_w |-> 0, current |-> INVALID, dst_w |-> 0, dst_h |-> 0, ret |-> "none"]

\* No peek window: c->peek is NULL.  The fields are those of
\* struct comp_window_peek, the queue mutex of the vk_bundle and the lock of
\* the peek command pool (their holders), the position of the window thread
\* and of one other thread that uses the queue
NoPeek == [alive |-> FALSE, width |-> 0, height |-> 0, running |-> FALSE, hidden |-> FALSE,
   thread |-> "none", event_height |-> 0,
   base |-> [width |-> 0, height |-> 0],
   pool |-> "none", queue_mutex |-> "none", other |-> "idle", blit |-> NoBlit]

\* what the blit in progress (or the last one) did: the work it gave the GPU,
\* whether its target answered not ready, whether the window thread wrote a
\* size while it ran and whether it created the images again
NoPeekLog == [skipped |-> FALSE, work |-> {}, not_ready |-> FALSE, size_written |-> FALSE,
   recreated |-> FALSE]

\* renderer_wait_for_present has read no clock: before_ns, its argument
\* desired_present_time_ns, after_ns, and whether LOG_FRAME_LAG was called.
NoLag == [before_ns |-> 0, desired_present_time_ns |-> 0, after_ns |-> 0, warned |-> FALSE]

\* A struct u_live_stats_ns with nothing recorded and no call made: values
\* is the array, value_count the number of recorded values in it; pre is the
\* recorded values the last u_ls_ns_get_and_reset found, out what it gave.
NoStats ==
    [values |-> <<>>, value_count |-> 0, calls |-> 0, pre |-> <<>>,
     out |-> [median |-> 0, mean |-> 0, worst |-> 0]]

\* No rift_send_report was called: its arguments (the data are data_length
\* bytes counting up from fill), what os_hid_set_feature will answer, the
\* local buffer and length, whether a memcpy went past the buffer, what
\* was given to os_hid_set_feature and the value returned.
NoReport ==
    [called |-> FALSE, report_id |-> 0, data_length |-> 0, fill |-> 0,
     hid |-> 0, buffer |-> <<>>, length |-> 0, overrun |-> FALSE,
     sent |-> <<>>, sent_count |-> 0, ret |-> 0]

\* Nothing was called on the debug image target yet.  formats is the list the
\* last target_create_images was given.
NoTargetLog ==
    [handed |-> <<>>, freed |-> 0, destroyed |-> 0, pacer_destroyed |-> 0,
     formats |-> <<>>, pre |-> NoTarget]

\* ------------------------------------------------------------------ init
\* The record of one renderer_acquire_swapchain_image call: who called, what
\* the target and renderer had on entry, the calls made inside, the results
\* of its comp_target_acquire calls and the local buffer_index.
AcqOps == {"create_images", "destroy_fences", "queue_wait_idle"}
NewAcq(by, has_images, count) ==
    [by |-> by, pre_images |-> has_images, pre_count |-> count,
     n |-> [o \in AcqOps |-> 0], results |-> <<>>, index |-> 0]
NoAcq == NewAcq("none", FALSE, 0)

NoLocal == [frame_id |-> INVALID, xret |-> XrtSuccess]

\* renderer_init: the non-image members, then the early ensure.
renderer_init(ready, dist_ok, mode) ==
    LET w0 == [r |-> [acquired_buffer |-> INVALID, fenced_buffer |-> INVALID,
                      rtr_array |-> 0, fences |-> <<>>, buffer_count |-> 0],
               ct |-> [ready |-> ready, has_images |-> FALSE, image_count |-> 0,
                       wait_for_present_supported |-> FALSE],
               queue |-> {}, log |-> NoLog(mode), fault |-> "none", acq |-> NoAcq,
               hist |-> NoHist, ret |-> TRUE, in_acquire |-> FALSE]
    IN renderer_ensure_images_and_renderings(w0, FALSE, dist_ok)

\* The state after comp_renderer_create, with a record of the given mode.
Created(mode) ==
    /\ settings \in [use_compute : BOOLEAN]
    /\ pc = "idle"
    /\ acq_ret = "draw"
    /\ frame = [waited |-> INVALID, rendering |-> INVALID]
    /\ next_id = 0
    /\ \E ready \in BOOLEAN, dist_ok \in BOOLEAN, wfp \in BOOLEAN :
          LET w == renderer_init(ready, dist_ok, mode) IN
            /\ r = w.r
            /\ ct = [w.ct EXCEPT !.wait_for_present_supported = wfp]
            /\ queue = w.queue
            /\ fault = w.fault
    /\ scratch = [v \in Views |-> [current |-> INVALID, last |-> INVALID]]
    /\ frame_state = [active |-> FALSE, used |-> [v \in Views |-> FALSE]]
    /\ local = NoLocal
    /\ acq = NoAcq
    /\ log = NoLog(mode)
    /\ draw_ret = "none"
    /\ hist = NoHist
    /\ chl = chl_scratch_ensure(Entered(chl_scratch_init), ViewCount,
                                scratch_extent, VK_FORMAT_R8G8B8A8_SRGB,
                                TRUE, ViewCount).c
    /\ chl_calls = NoCalls
    /\ dit = NoTarget
    /\ dit_log = NoTargetLog
    /\ peek = NoPeek
    /\ peek_log = NoPeekLog /\ lag = NoLag /\ uls = NoStats /\ rift = NoReport

Init == Created("calls")

\* ------------------------------------------------------- scratch images
\* comp_scratch_single_images_get / _done / _discard on one view's ring.
comp_scratch_single_images_get(s) ==
    [s EXCEPT !.current = (s.last + 1) % COMP_SCRATCH_NUM_IMAGES]

comp_scratch_single_images_done(s) ==
    [s EXCEPT !.last = s.current, !.current = INVALID]

comp_scratch_single_images_discard(s) == [s EXCEPT !.current = INVALID]

\* Lines 713-722: get on the views below view_count.
chl_scratch_state_init_and_get(sc, view_count) ==
    [v \in DOMAIN sc |-> IF v < view_count THEN comp_scratch_single_images_get(sc[v])
                         ELSE sc[v]]

\* A choice that calls done on every view below view_count.
scratch_state_call_done(used, v, view_count) ==
    IF v >= view_count THEN "none" ELSE "done"

\* Lines 733-739: what is called on view v.
scratch_state_call(used, v, view_count) ==
    IF v >= view_count THEN "none"
    ELSE IF used[v] THEN "done" ELSE "discard"

\* Lines 730-743, without the zeroing of the state, which is the caller's
\* variable.
chl_scratch_state_discard_or_done(used, sc, view_count) ==
    [v \in DOMAIN sc |->
        LET call == scratch_state_call(used, v, view_count)
        IN IF call = "done" THEN comp_scratch_single_images_done(sc[v])
           ELSE IF call = "discard" THEN comp_scratch_single_images_discard(sc[v])
           ELSE sc[v]]

NoFrameState == [active |-> FALSE, used |-> [v \in Views |-> FALSE]]

\* ------------------------------------------------ the debug image target
VK_FORMAT_B8G8R8A8_UNORM == "VK_FORMAT_B8G8R8A8_UNORM"
VK_FORMAT_B8G8R8A8_SRGB == "VK_FORMAT_B8G8R8A8_SRGB"
\* A format the target does nothing with.
VK_FORMAT_R16G16B16A16_SFLOAT == "VK_FORMAT_R16G16B16A16_SFLOAT"

\* A call on the target: d is the structure, l the record of the calls,
\* fault the first assertion that failed.
OnTarget(d, l, f) == [d |-> d, l |-> l, fault |-> f]

TargetAssert(tx, cond, what) ==
    IF cond \/ tx.fault # "none" THEN tx ELSE [tx EXCEPT !.fault = what]

\* Lines 336-374: the zeroed structure, the pacer, the non-Vulkan state of
\* the scratch images, index = -1.
target_create ==
    [NoTarget EXCEPT !.alive = TRUE, !.target.state = "inited",
                     !.upc = "created", !.index = INVALID]

\* Lines 61-70.
target_init_post_vulkan(d) == [d EXCEPT !.has_init_vulkan = TRUE]

\* Lines 103-128: the search through create_info->formats, from entry i.
RECURSIVE find_format(_, _, _)
find_format(formats, i, f) ==
    IF i > Len(formats) THEN f
    ELSE LET format == formats[i] IN
         IF ~f.maybe_convert /\ format = VK_FORMAT_B8G8R8A8_UNORM
         THEN find_format(formats, i + 1,
                          [f EXCEPT !.use_unorm = TRUE, !.maybe_convert = TRUE])
         ELSE IF ~f.maybe_convert /\ format = VK_FORMAT_B8G8R8A8_SRGB
         THEN find_format(formats, i + 1,
                          [f EXCEPT !.use_srgb = TRUE, !.maybe_convert = TRUE])
         ELSE IF format = VK_FORMAT_R8G8B8A8_UNORM
         THEN [f EXCEPT !.use_unorm = TRUE, !.maybe_convert = FALSE]
         ELSE IF format = VK_FORMAT_R8G8B8A8_SRGB
         THEN [f EXCEPT !.use_srgb = TRUE, !.maybe_convert = FALSE]
         ELSE find_format(formats, i + 1, f)

\* Lines 79-165.  alloc_ok: whether comp_scratch_single_images_ensure_mutable
\* (whose result the target does not look at) allocated the images.
target_create_images(tx0, extent, formats, alloc_ok) ==
    LET tx1 == TargetAssert(tx0, tx0.d.has_init_vulkan,
                            "create_images_before_vulkan")
        f == find_format(formats, 1, [use_unorm |-> FALSE, use_srgb |-> FALSE,
                                      maybe_convert |-> FALSE])
        tx2 == TargetAssert(tx1, f.use_unorm \/ f.use_srgb, "no_format")
    IN [tx2 EXCEPT
          !.l.formats = formats,
          !.d.target.images = alloc_ok,
          !.d.view = IF f.use_srgb THEN "srgb_view"
                     ELSE IF f.use_unorm THEN "unorm_view" ELSE @,
          !.d.image_count = COMP_SCRATCH_NUM_IMAGES,
          !.d.images = TRUE,
          !.d.width = extent.width,
          !.d.height = extent.height,
          !.d.format = IF f.use_srgb THEN VK_FORMAT_R8G8B8A8_SRGB
                       ELSE IF f.use_unorm THEN VK_FORMAT_R8G8B8A8_UNORM
                       ELSE @]

\* Lines 166-173.
target_has_images(d) == d.images

\* An acquire that hands out the slot handed out last.
target_acquire_same(tx0) ==
    LET tx1 == TargetAssert(tx0, tx0.d.index = INVALID, "acquire_index_set")
        index == IF tx1.d.target.last = INVALID THEN 0 ELSE tx1.d.target.last
    IN [tx1 EXCEPT !.d.target.current = index,
                   !.d.index = index,
                   !.l.handed = Append(@, index)]

\* Lines 175-193: the index it returns is the one appended to handed.
target_acquire(tx0) ==
    LET tx1 == TargetAssert(tx0, tx0.d.index = INVALID, "acquire_index_set")
        got == comp_scratch_single_images_get(
                   [current |-> tx1.d.target.current, last |-> tx1.d.target.last])
    IN [tx1 EXCEPT !.d.target.current = got.current,
                   !.d.index = got.current,
                   !.l.handed = Append(@, got.current)]

\* Lines 195-213.
target_present(tx0, index) ==
    LET tx1 == TargetAssert(tx0, index = tx0.d.index, "present_other_index")
        did == comp_scratch_single_images_done(
                   [current |-> tx1.d.target.current, last |-> tx1.d.target.last])
    IN [tx1 EXCEPT !.d.target.current = did.current,
                   !.d.target.last = did.last,
                   !.d.index = INVALID]

\* Lines 215-219.
target_wait_for_present == "VK_ERROR_EXTENSION_NOT_PRESENT"

\* A destroy that frees the Vulkan images whether or not Vulkan was set up.
target_destroy_frees_always(tx0) ==
    LET tx1 == [tx0 EXCEPT !.l.pre = tx0.d,
                           !.d.target.images = FALSE,
                           !.l.freed = @ + 1,
                           !.d.has_init_vulkan = FALSE,
                           !.d.image_count = 0,
                           !.d.images = FALSE,
                           !.d.width = 0,
                           !.d.height = 0,
                           !.d.format = VK_FORMAT_UNDEFINED]
    IN [tx1 EXCEPT !.d.target.state = "destroyed",
                   !.l.destroyed = @ + 1,
                   !.d.upc = "destroyed",
                   !.l.pacer_destroyed = @ + 1,
                   !.d.alive = FALSE]

\* Lines 305-334.  The record keeps the structure as it was found and as
\* it was when its memory was freed.
target_destroy(tx0) ==
    LET tx1 == IF tx0.d.has_init_vulkan
               THEN [tx0 EXCEPT !.l.pre = tx0.d,
                                !.d.target.images = FALSE,
                                !.l.freed = @ + 1,
                                !.d.has_init_vulkan = FALSE,
                                !.d.image_count = 0,
                                !.d.images = FALSE,
                                !.d.width = 0,
                                !.d.height = 0,
                                !.d.format = VK_FORMAT_UNDEFINED]
               ELSE [tx0 EXCEPT !.l.pre = tx0.d]
    IN [tx1 EXCEPT !.d.target.state = "destroyed",
                   !.l.destroyed = @ + 1,
                   !.d.upc = "destroyed",
                   !.l.pacer_destroyed = @ + 1,
                   !.d.alive = FALSE]

\* ------------------------------------------------------------- plumbing
Commit(w) ==
    /\ r' = w.r
    /\ ct' = w.ct
    /\ queue' = w.queue
    /\ log' = w.log
    /\ fault' = w.fault
    /\ acq' = w.acq
    /\ hist' = w.hist

\* A first failed assert() aborts the process, unless the build compiled
\* the assertions out (NDEBUG) and the thread goes on.
Goto(w, next) ==
    pc' \in IF fault = "none" /\ w.fault # "none" THEN {"crashed", next}
            ELSE {next}

ValidBuffer(w, i) == i >= 0 /\ i < w.r.buffer_count /\ i + 1 \in DOMAIN w.r.fences

\* ------------------------------------------------ environment and caller
\* The frame loop starts a round: it waits a frame and a fresh id goes into
\* the waited slot.  The records of the previous round are dropped.
WaitFrame ==
    /\ pc = "idle"
    /\ comp_frame_is_invalid_locked(frame.waited)
    /\ next_id < MaxFrames
    /\ frame' = [frame EXCEPT !.waited = next_id]
    /\ next_id' = next_id + 1
    /\ log' = NoLog(log.mode)
    /\ acq' = NoAcq
    /\ local' = NoLocal
    /\ draw_ret' = "none"
    /\ UNCHANGED <<settings, chl, chl_calls, dit, dit_log, peek, peek_log, lag, uls, rift,
                   pc, acq_ret, r, ct, queue, scratch,
                   frame_state, hist, fault>>

\* The target's window/display thread changes what check_ready reports.
\* It is enabled where the thread is about to ask.
TargetReadyChange ==
    /\ pc \in {"idle", "acq_ensure", "acq_recreate", "present", "wfp"}
    /\ ct' = [ct EXCEPT !.ready = ~@]
    /\ UNCHANGED <<settings, chl, chl_calls, dit, dit_log, peek, peek_log, lag, uls, rift,
                   pc, acq_ret, frame, next_id, r, queue,
                   scratch, frame_state, local, acq, log, draw_ret, hist, fault>>

\* The GPU completes one submission and signals its fence.
GpuComplete ==
    /\ pc \notin {"crashed", "destroyed", "undefined"}
    /\ \E s \in queue :
          LET w == Complete(World(FALSE), s) IN
            /\ queue' = w.queue
            /\ r' = w.r
    /\ UNCHANGED <<settings, chl, chl_calls, dit, dit_log, peek, peek_log, lag, uls, rift,
                   pc, acq_ret, frame, next_id, ct, scratch,
                   frame_state, local, acq, log, draw_ret, hist, fault>>

\* ---------------------------------------------------- comp_renderer_draw
\* A discard that closes no timing mark.
draw_not_ready_unmarked(w, id) ==
    Logged(w, Ev("clear_rendering", "", INVALID, id))

\* A discard that also waits for the queue.
draw_not_ready_waits(w, id) ==
    renderer_wait_queue_idle(
        Logged(Logged(Logged(w,
            Ev("mark_submit_begin", "", INVALID, id)),
            Ev("mark_submit_end", "", INVALID, id)),
            Ev("clear_rendering", "", INVALID, id)))

\* Lines 1414-1423: what draw does for a frame it discards.
draw_not_ready(w, id) ==
    Logged(Logged(Logged(w,
        Ev("mark_submit_begin", "", INVALID, id)),
        Ev("mark_submit_end", "", INVALID, id)),
        Ev("clear_rendering", "", INVALID, id))

\* Lines 1395-1432: asserts, move waited to rendering, begin mark, the
\* not-ready short cut, and the decision whether to acquire.
DrawBegin ==
    /\ pc = "idle"
    /\ ~comp_frame_is_invalid_locked(frame.waited)
    /\ LET w0 == World(FALSE)
           w1 == Assert_(w0, comp_frame_is_invalid_locked(frame.rendering),
                         "draw_rendering_not_invalid")
           fr == comp_frame_move_and_clear_locked(frame)
           id == fr.rendering
           w2 == Logged(Logged(w1, Ev("mark_begin", "", INVALID, id)),
                        Ev("check_ready", IF ct.ready THEN "ready" ELSE "not_ready",
                           INVALID, INVALID))
           w3 == draw_not_ready(w2, id)
       IN /\ Goto(w1, IF ~ct.ready THEN "idle"
                      ELSE IF r.acquired_buffer < 0 THEN "acq_ensure"
                      ELSE "dispatch")
          /\ IF pc' = "crashed"
             THEN /\ Commit(w1)
                  /\ UNCHANGED <<frame, draw_ret>>
             ELSE IF ~ct.ready
             THEN /\ Commit(w3)
                  /\ frame' = comp_frame_clear_locked(fr)
                  /\ draw_ret' = XrtSuccess
             ELSE /\ Commit(w2)
                  /\ frame' = fr
                  /\ UNCHANGED draw_ret
    /\ acq_ret' = "draw"
    /\ UNCHANGED <<settings, chl, chl_calls, dit, dit_log, peek, peek_log, lag, uls, rift,
                   next_id, scratch, frame_state, local>>

\* comp_renderer_draw returns xret (lines 1583-1585; after the lag
\* diagnostic of lines 1223-1236 when renderer_wait_for_present ran).
DrawReturns(w, xret) ==
    /\ Commit([w EXCEPT !.acq = NoAcq])
    /\ Goto(w, "idle")
    /\ draw_ret' = IF pc' = "crashed" THEN draw_ret ELSE xret

\* renderer_acquire_swapchain_image returns: to comp_renderer_draw before
\* dispatch, or to the end of renderer_wait_for_present and so of draw.
AcquireReturns(w) ==
    IF acq_ret = "draw"
    THEN /\ Commit(w)
         /\ Goto(w, "dispatch")
         /\ UNCHANGED draw_ret
    ELSE DrawReturns(w, local.xret)

\* The index a target's acquire leaves in *out_index: an image of the target
\* when it hands one out, otherwise *out_index is left as it was.
AcquireIndices(res, old) ==
    IF res \in {VkSuccess, VkSuboptimal}
    THEN 0 .. (ct.image_count - 1)
    ELSE {old}

\* Line 1141: buffer_index is recorded as the acquired image.
Acquired(w, idx) ==
    [w EXCEPT !.r.acquired_buffer = idx,
              !.log = Record(@, Ev("acquire", "", idx, INVALID))]

\* Lines 1105-1118: entry of renderer_acquire_swapchain_image.
AcquireEnsure ==
    /\ pc = "acq_ensure"
    /\ \E dist_ok \in BOOLEAN :
          LET w0 == [World(TRUE) EXCEPT
                        !.acq = NewAcq(acq_ret, ct.has_images, r.buffer_count)]
              w1 == Assert_(w0, r.acquired_buffer < 0, "acquire_while_acquired")
              w2 == renderer_ensure_images_and_renderings(w1, FALSE, dist_ok)
          IN IF w2.ret
             THEN /\ Commit(w2)
                  /\ Goto(w2, "acq_acquire")
                  /\ UNCHANGED draw_ret
             ELSE AcquireReturns(w2)
    /\ UNCHANGED <<settings, chl, chl_calls, dit, dit_log, peek, peek_log, lag, uls, rift,
                   acq_ret, frame, next_id, scratch,
                   frame_state, local>>

\* Lines 1119-1123 and 1137-1141: the first comp_target_acquire.
AcquireImage ==
    /\ pc = "acq_acquire"
    /\ \E res \in AcquireResults :
       \E idx \in AcquireIndices(res, acq.index) :
          LET w1 == [World(TRUE) EXCEPT
                        !.acq.results = Append(@, res),
                        !.acq.index = idx]
          IN IF res \in Stale
             THEN /\ Commit(w1)
                  /\ pc' = "acq_recreate"
                  /\ UNCHANGED draw_ret
             ELSE AcquireReturns(Acquired(w1, idx))
    /\ UNCHANGED <<settings, chl, chl_calls, dit, dit_log, peek, peek_log, lag, uls, rift,
                   acq_ret, frame, next_id, scratch,
                   frame_state, local>>

\* Lines 1124-1130: the forced recreate after a stale acquire.
AcquireRecreate ==
    /\ pc = "acq_recreate"
    /\ \E dist_ok \in BOOLEAN :
          LET w1 == renderer_ensure_images_and_renderings(World(TRUE), TRUE, dist_ok)
          IN IF w1.ret
             THEN /\ Commit(w1)
                  /\ Goto(w1, "acq_retry")
                  /\ UNCHANGED draw_ret
             ELSE AcquireReturns(w1)
    /\ UNCHANGED <<settings, chl, chl_calls, dit, dit_log, peek, peek_log, lag, uls, rift,
                   acq_ret, frame, next_id, scratch,
                   frame_state, local>>

\* Lines 1132-1136 and 1141: the second comp_target_acquire.
AcquireRetry ==
    /\ pc = "acq_retry"
    /\ \E res \in AcquireResults :
       \E idx \in AcquireIndices(res, acq.index) :
          LET w1 == [World(TRUE) EXCEPT
                        !.acq.results = Append(@, res),
                        !.acq.index = idx]
          IN AcquireReturns(Acquired(w1, idx))
    /\ UNCHANGED <<settings, chl, chl_calls, dit, dit_log, peek, peek_log, lag, uls, rift,
                   acq_ret, frame, next_id, scratch,
                   frame_state, local>>

\* A choice that takes the graphics path whatever the setting.
dispatch_path_graphics(use_compute) == "dispatch_graphics"

\* Lines 1460-1467: the pipeline that renders the frame.
dispatch_path(use_compute) ==
    IF use_compute THEN "dispatch_compute" ELSE "dispatch_graphics"

\* Lines 1446-1467 and 1264-1313 / 1333-1379: the scratch frame state is
\* set up and the chosen pipeline records its work for image
\* acquired_buffer.  Indexing rtr_array / target->images outside the arrays
\* is undefined behaviour: from there on the program's behaviour is not
\* defined, which the position "undefined" stands for.
Dispatch ==
    /\ pc = "dispatch"
    /\ \E used \in [Views -> BOOLEAN] :
          LET bad == ~ValidBuffer(World(FALSE), r.acquired_buffer)
              w1 == Logged(Logged(World(FALSE),
                      Ev("frame_state_init", "", INVALID, frame.rendering)),
                      Ev(dispatch_path(settings.use_compute),
                         "", r.acquired_buffer, frame.rendering))
          IN /\ Commit(w1)
             /\ scratch' = chl_scratch_state_init_and_get(scratch, ViewCount)
             /\ frame_state' = [active |-> TRUE, used |-> used]
             /\ pc' = IF bad THEN "undefined" ELSE "submit"
    /\ UNCHANGED <<settings, chl, chl_calls, dit, dit_log, peek, peek_log, lag, uls, rift,
                   acq_ret, frame, next_id, local, draw_ret>>

\* A signal value that does not follow the frame id.
render_complete_signal_stuck(frame_id) == 0

\* Lines 1051 and 1165: the value the render-complete semaphore is to reach
\* for a frame, (uint64_t)frame_id.
render_complete_signal_value(frame_id) == frame_id

\* vkWaitForFences on fences[fenced_buffer] returns once that fence is
\* signaled: at once if it is, when its submission completes if one is
\* pending, never if it was reset and not submitted.
FenceWaitReturns(w) ==
    IF w.r.fenced_buffer < 0 \/ ~ValidBuffer(w, w.r.fenced_buffer) THEN TRUE
    ELSE IF w.r.fences[w.r.fenced_buffer + 1] = "signaled" THEN TRUE
    ELSE \E s \in w.queue : s.live /\ s.fence = w.r.fenced_buffer

\* Lines 972-990.
renderer_wait_for_last_fence(w) ==
    IF w.r.fenced_buffer < 0 THEN w
    ELSE LET i == w.r.fenced_buffer
             mine == {s \in w.queue : s.live /\ s.fence = i}
             w1 == IF ValidBuffer(w, i)
                   THEN [w EXCEPT !.queue = @ \ mine,
                                  !.r.fences[i + 1] = "signaled"]
                   ELSE w
         IN [Logged(w1, Ev("wait_fence", "", i, INVALID))
               EXCEPT !.r.fenced_buffer = INVALID]

\* Some pending submission signals fences[i].
FenceBusy(w, i) == \E s \in w.queue : s.live /\ s.fence = i

\* An early return that leaves the image's fence recorded as submitted.
DrawFails_fenced(w) ==
    DrawReturns([w EXCEPT !.r.fenced_buffer = w.r.acquired_buffer],
                XrtErrorVulkan)

\* A failed submission after which the draw goes on to present.
DrawFails_presents(w) ==
    /\ Commit(w)
    /\ pc' = "present"
    /\ UNCHANGED draw_ret

\* An early return that reports success.
DrawFails_absorbed(w) == DrawReturns(w, XrtSuccess)

\* The early return of comp_renderer_draw at line 1469.
DrawFails(w) == DrawReturns(w, XrtErrorVulkan)

\* Lines 992-1103 (through dispatch_*, lines 1315-1319 / 1381-1385) and the
\* check of the result at lines 1468-1470.
SubmitQueue ==
    /\ pc = "submit"
    /\ FenceWaitReturns(World(FALSE))
    /\ \E reset \in SubmitResults, submit \in SubmitResults :
          LET frame_id == frame.rendering
              i == r.acquired_buffer
              w0 == Assert_(World(FALSE), frame_id >= 0, "submit_frame_id_negative")
              w1 == renderer_wait_for_last_fence(w0)
              w2 == Assert_(Assert_(w1, w1.r.fenced_buffer < 0, "submit_fence_pending"),
                            i >= 0, "submit_nothing_acquired")
              ok == ValidBuffer(w2, i)
              w3 == Logged(w2, EvBusy("reset_fences", reset, i, frame_id,
                                      FenceBusy(w2, i)))
              w4 == IF reset = VkSuccess /\ ok
                    THEN [w3 EXCEPT !.r.fences[i + 1] = "unsignaled"] ELSE w3
              w5 == Assert_(w4, ~comp_frame_is_invalid_locked(frame_id),
                            "submit_rendering_invalid")
              w6 == Logged(Logged(Logged(w5,
                      Ev("mark_submit_begin", "", INVALID, frame_id)),
                      EvBusy("queue_submit", submit, i,
                             render_complete_signal_value(frame_id),
                             FenceBusy(w5, i))),
                      Ev("mark_submit_end", "", INVALID, frame_id))
              w7 == [w6 EXCEPT !.queue = @ \cup {[fence |-> i, id |-> frame_id,
                                                  live |-> ok]},
                               !.r.fenced_buffer = i]
          IN IF reset # VkSuccess THEN DrawFails(w3)
             ELSE IF submit # VkSuccess THEN DrawFails(w6)
             ELSE /\ Commit(w7)
                  /\ pc' = "present"
                  /\ UNCHANGED draw_ret
    /\ UNCHANGED <<settings, chl, chl_calls, dit, dit_log, peek, peek_log, lag, uls, rift,
                   acq_ret, frame, next_id, scratch,
                   frame_state, local>>

\* A resize that does nothing.
renderer_resize_keeps(w, dist_ok) == w

\* Lines 1144-1155.
renderer_resize(w, dist_ok) ==
    IF ~w.ct.ready THEN renderer_close_renderings_and_fences(w)
    ELSE renderer_ensure_images_and_renderings(w, TRUE, dist_ok)

\* A present that hands the target the signal value of the first frame.
renderer_present_first_value(w0, res, dist_ok) ==
    LET w1 == Logged(w0, Ev("present", res, w0.r.acquired_buffer, 0))
        w2 == [w1 EXCEPT !.r.acquired_buffer = INVALID]
    IN IF res \in Stale THEN renderer_resize(w2, dist_ok) ELSE w2

\* Lines 1157-1183.
renderer_present_swapchain_image(w0, res, dist_ok) ==
    LET w == Assert_(w0, ~comp_frame_is_invalid_locked(frame.rendering),
                     "present_rendering_invalid")
        w1 == Logged(w, Ev("present", res, w.r.acquired_buffer,
                           render_complete_signal_value(frame.rendering)))
        w2 == [w1 EXCEPT !.r.acquired_buffer = INVALID]
    IN IF res \in Stale
       THEN renderer_resize(w2, dist_ok)
       ELSE w2

\* What the debug mirror leaves in xret: XRT_SUCCESS when it is not ready
\* and active or its blit succeeds, the blit's error otherwise.
MirrorOutcomes == {XrtSuccess, XrtErrorVulkan}

\* Lines 1504-1540: present, save the frame's data, clear the rendering
\* slot, the optional mirror blit.
Present ==
    /\ pc = "present"
    /\ \E res \in PresentResults, dist_ok \in BOOLEAN, mirror \in MirrorOutcomes :
          LET w1 == renderer_present_swapchain_image(World(FALSE), res, dist_ok)
              w2 == Logged(w1, Ev("clear_rendering", "", INVALID, frame.rendering))
          IN /\ Commit(w2)
             /\ Goto(w2, "wait_idle")
             /\ local' = [frame_id |-> frame.rendering, xret |-> mirror]
             /\ frame' = comp_frame_clear_locked(frame)
    /\ UNCHANGED <<settings, chl, chl_calls, dit, dit_log, peek, peek_log, lag, uls, rift,
                   acq_ret, next_id, scratch, frame_state,
                   draw_ret>>

\* The id of the rendering slot as it is when info_gpu is called.
info_gpu_frame_id_of_slot(saved, fr) == fr.rendering

\* Line 1565: comp_target_info_gpu gets frame_id, saved at line 1508 before
\* the rendering slot was cleared.
info_gpu_frame_id(saved, fr) == saved.frame_id

\* Lines 1542-1579: queue-idle wait, the scratch frame state is finalized,
\* GPU timestamps are fed back when there are any.
WaitIdle ==
    /\ pc = "wait_idle"
    /\ \E timestamps \in BOOLEAN :
          LET w1 == renderer_wait_queue_idle(World(FALSE))
              w2 == Logged(w1, Ev("frame_state_fini", "", INVALID, local.frame_id))
              w3 == IF local.xret = XrtSuccess /\ timestamps
                    THEN Logged(w2, Ev("info_gpu", "", INVALID, info_gpu_frame_id(local, frame)))
                    ELSE w2
          IN Commit([w3 EXCEPT !.acq = NoAcq])
    /\ scratch' = chl_scratch_state_discard_or_done(frame_state.used, scratch, ViewCount)
    /\ frame_state' = NoFrameState
    /\ pc' = "wfp"
    /\ UNCHANGED <<settings, chl, chl_calls, dit, dit_log, peek, peek_log, lag, uls, rift,
                   acq_ret, frame, next_id, local, draw_ret>>

\* A timeout of twice the frame interval.
wait_timeout_ns_double(frame_interval_ns) == frame_interval_ns * 2

\* Line 1199: timeout_ns = c->frame_interval_ns * 2.5f, converted to the
\* integer time_duration_ns.
wait_timeout_ns(frame_interval_ns) == (frame_interval_ns * 5) \div 2

\* Lines 1185-1236: renderer_wait_for_present up to its return or the start
\* of the eager acquire; res is what the target's wait_for_present returns.
WaitForPresent ==
    /\ pc = "wfp"
    /\ \E res \in WaitResults :
          LET w0 == Logged(World(FALSE),
                           Ev("wfp_check_ready",
                              IF ct.ready THEN "ready" ELSE "not_ready",
                              INVALID, INVALID))
          IN
          IF ~ct.ready
          THEN /\ DrawReturns(w0, local.xret)
               /\ UNCHANGED acq_ret
          ELSE IF ct.wait_for_present_supported
          THEN /\ DrawReturns(Logged(w0,
                                     Ev("wait_for_present", res,
                                        wait_timeout_ns(FrameIntervalNs), INVALID)),
                              local.xret)
               /\ UNCHANGED acq_ret
          ELSE /\ Commit(w0)
               /\ pc' = "acq_ensure"
               /\ acq_ret' = "wfp"
               /\ UNCHANGED draw_ret
    /\ UNCHANGED <<settings, chl, chl_calls, dit, dit_log, peek, peek_log, lag, uls, rift,
                   frame, next_id, scratch, frame_state, local>>

\* Lines 1238-1251 (comp_renderer_destroy, lines 1598-1614).
\* The records then are those of renderer_fini alone.
renderer_fini ==
    /\ pc = "idle"
    /\ Commit(renderer_close_renderings_and_fences(
                 [World(FALSE) EXCEPT !.log = NoLog(log.mode), !.acq = NoAcq]))
    /\ ScratchCalled("free_resources", NoArgs,
                     chl_scratch_free_resources(Entered(chl)))
    /\ pc' = "destroyed"
    /\ local' = NoLocal
    /\ draw_ret' = "none"
    /\ UNCHANGED <<settings, dit, dit_log, peek, peek_log, lag, uls, rift, acq_ret, frame,
                   next_id, scratch, frame_state>>

Next ==
    \/ WaitFrame
    \/ TargetReadyChange
    \/ GpuComplete
    \/ DrawBegin
    \/ AcquireEnsure
    \/ AcquireImage
    \/ AcquireRecreate
    \/ AcquireRetry
    \/ Dispatch
    \/ SubmitQueue
    \/ Present
    \/ WaitIdle
    \/ WaitForPresent
    \/ renderer_fini

Spec == Init /\ [][Next]_vars

\* The same program with a record of the stages, and of the history.
InitStages == Created("stages")

SpecStages == InitStages /\ [][Next]_vars

InitHistory == Created("history")

SpecHistory == InitHistory /\ [][Next]_vars

\* ------------------------------------------------ the scratch images alone
\* The compositor's calls on its chl_scratch, before a renderer draws: any
\* sequence of chl_scratch_ensure and chl_scratch_free_resources, with any
\* arguments and any outcome of the Vulkan calls inside.
ScratchExtents == {Extent(1, 1), Extent(1, 2), Extent(2, 1)}
ScratchFormats == {VK_FORMAT_R8G8B8A8_SRGB, VK_FORMAT_R8G8B8A8_UNORM}
\* What fails inside a chl_scratch_ensure: nothing, the render pass, or the
\* images of one view.
ScratchFailures == {"none", "render_pass", "images"}

InitScratch ==
    /\ settings = [use_compute |-> FALSE]
    /\ pc = "scratch"
    /\ acq_ret = "draw"
    /\ frame = [waited |-> INVALID, rendering |-> INVALID]
    /\ next_id = 0
    /\ LET w == renderer_init(FALSE, TRUE, "calls") IN
          /\ r = w.r
          /\ ct = w.ct
          /\ queue = w.queue
          /\ fault = w.fault
    /\ scratch = [v \in Views |-> [current |-> INVALID, last |-> INVALID]]
    /\ frame_state = NoFrameState
    /\ local = NoLocal
    /\ acq = NoAcq
    /\ log = NoLog("calls")
    /\ draw_ret = "none"
    /\ hist = NoHist
    /\ chl = chl_scratch_init
    /\ chl_calls = NoCalls
    /\ dit = NoTarget
    /\ dit_log = NoTargetLog
    /\ peek = NoPeek
    /\ peek_log = NoPeekLog /\ lag = NoLag /\ uls = NoStats /\ rift = NoReport

ScratchEnsure ==
    /\ pc = "scratch"
    /\ \E view_count \in 0 .. MaxScratchViews, extent \in ScratchExtents,
          format \in ScratchFormats, fails \in ScratchFailures,
          at \in 0 .. (MaxScratchViews - 1) :
        LET render_pass_ok == fails # "render_pass"
            images_fail_at == IF fails = "images" THEN at ELSE view_count
        IN
          /\ IF fails = "images" THEN at < view_count ELSE at = 0
          /\ ScratchCalled("ensure",
                        [view_count |-> view_count, extent |-> extent,
                         format |-> format],
                        chl_scratch_ensure(Entered(chl), view_count, extent,
                                           format, render_pass_ok,
                                           images_fail_at))
    /\ UNCHANGED <<settings, pc, acq_ret, frame, next_id, r, ct, queue,
                   scratch, frame_state, local, acq, log, draw_ret, hist,
                   dit, dit_log, peek, peek_log, lag, uls, rift, fault>>

ScratchFreeResources ==
    /\ pc = "scratch"
    /\ ScratchCalled("free_resources", NoArgs,
                     chl_scratch_free_resources(Entered(chl)))
    /\ UNCHANGED <<settings, pc, acq_ret, frame, next_id, r, ct, queue,
                   scratch, frame_state, local, acq, log, draw_ret, hist,
                   dit, dit_log, peek, peek_log, lag, uls, rift, fault>>

NextScratch ==
    \/ ScratchEnsure
    \/ ScratchFreeResources

SpecScratch == InitScratch /\ [][NextScratch]_vars

\* ------------------------------------------- the debug image target alone
\* The renderer variables while no renderer runs: the thread is at position
\* p of the calls it makes on something else.
NoRenderer(p) ==
    /\ settings = [use_compute |-> FALSE]
    /\ pc = p
    /\ acq_ret = "draw"
    /\ frame = [waited |-> INVALID, rendering |-> INVALID]
    /\ next_id = 0
    /\ LET w == renderer_init(FALSE, TRUE, "calls") IN
          /\ r = w.r
          /\ ct = w.ct
          /\ queue = w.queue
          /\ fault = w.fault
    /\ scratch = [v \in Views |-> [current |-> INVALID, last |-> INVALID]]
    /\ frame_state = NoFrameState
    /\ local = NoLocal
    /\ acq = NoAcq
    /\ log = NoLog("calls")
    /\ draw_ret = "none"
    /\ hist = NoHist
    /\ chl = chl_scratch_init
    /\ chl_calls = NoCalls

\* The calls the compositor and its renderer make on a debug image target:
\* init_post_vulkan once Vulkan runs, create_images from the renderer's
\* ensure (which runs while the renderer holds no image), acquire while the
\* renderer holds no image and present of the image it holds (lines
\* 1429-1432, 1157-1174), destroy at any time.
TargetExtents == {Extent(1, 1), Extent(2, 1)}
TargetFormats == {VK_FORMAT_B8G8R8A8_UNORM, VK_FORMAT_B8G8R8A8_SRGB,
                  VK_FORMAT_R8G8B8A8_UNORM, VK_FORMAT_R8G8B8A8_SRGB,
                  VK_FORMAT_R16G16B16A16_SFLOAT}
FormatLists == UNION {[1 .. n -> TargetFormats] : n \in 0 .. MaxFormats}

InitTarget ==
    /\ NoRenderer("target")
    /\ dit = target_create
    /\ dit_log = NoTargetLog
    /\ peek = NoPeek
    /\ peek_log = NoPeekLog /\ lag = NoLag /\ uls = NoStats /\ rift = NoReport

\* The call returns; a first failed assert() aborts the process unless the
\* assertions are compiled out.
TargetReturns(tx) ==
    /\ dit' = tx.d
    /\ dit_log' = tx.l
    /\ fault' = tx.fault
    /\ pc' \in IF fault = "none" /\ tx.fault # "none"
               THEN {"crashed", "target"} ELSE {"target"}
    /\ UNCHANGED <<settings, acq_ret, frame, next_id, r, ct, queue, scratch,
                   frame_state, local, acq, log, draw_ret, hist, chl,
                   chl_calls, peek, peek_log, lag, uls, rift>>

TargetInitPostVulkan ==
    /\ pc = "target"
    /\ dit.alive
    /\ ~dit.has_init_vulkan
    /\ TargetReturns(OnTarget(target_init_post_vulkan(dit), dit_log, fault))

TargetCreateImages ==
    /\ pc = "target"
    /\ dit.alive
    /\ dit.has_init_vulkan
    /\ dit.index = INVALID
    /\ \E extent \in TargetExtents, formats \in FormatLists,
          alloc_ok \in BOOLEAN :
          TargetReturns(target_create_images(OnTarget(dit, dit_log, fault),
                                             extent, formats, alloc_ok))

TargetAcquire ==
    /\ pc = "target"
    /\ dit.alive
    /\ target_has_images(dit)
    /\ dit.index = INVALID
    /\ Len(dit_log.handed) < MaxCycles
    /\ TargetReturns(target_acquire(OnTarget(dit, dit_log, fault)))

TargetPresent ==
    /\ pc = "target"
    /\ dit.alive
    /\ dit.index # INVALID
    /\ TargetReturns(target_present(OnTarget(dit, dit_log, fault), dit.index))

TargetDestroy ==
    /\ pc = "target"
    /\ dit.alive
    /\ TargetReturns(target_destroy(OnTarget(dit, dit_log, fault)))

NextTarget ==
    \/ TargetInitPostVulkan
    \/ TargetCreateImages
    \/ TargetAcquire
    \/ TargetPresent
    \/ TargetDestroy

SpecTarget == InitTarget /\ [][NextTarget]_vars

TypeOK ==
    /\ pc \in {"idle", "acq_ensure", "acq_acquire", "acq_recreate", "acq_retry",
               "dispatch", "submit", "present", "wait_idle", "wfp",
               "crashed", "destroyed", "undefined"}
    /\ r.acquired_buffer \in -1 .. MaxImages
    /\ r.fenced_buffer \in -1 .. MaxImages
    /\ r.buffer_count \in 0 .. MaxImages
    /\ Len(r.fences) \in {0, r.buffer_count}
    /\ Cardinality(queue) <= 1

\* ------------------------------------------------------------ properties
\* The draw in progress or just returned dispatched through this pipeline.
DispatchOp == IF settings.use_compute THEN "dispatch_compute" ELSE "dispatch_graphics"

\* comp_renderer_draw has returned and the frame loop has not moved on.
Returned == pc = "idle" /\ draw_ret # "none"

\* The draw that just returned found the target not ready at line 1414.
Discarded == Returned /\ log.res["check_ready"] = "not_ready"

\* C1: on every return path of comp_renderer_draw the rendering slot is
\* invalid again, so that the move into the rendering slot never targets an
\* occupied slot and the asserts at the top of draw never fail.
C1_FrameSlotLifecycle ==
    /\ pc = "idle" => comp_frame_is_invalid_locked(frame.rendering)
    /\ fault # "draw_rendering_not_invalid"

\* C2: a draw that reached renderer_submit_queue (it reset the image's fence)
\* has, when it returns, requested present, cleared the rendering slot,
\* finalized the scratch frame state and waited for the queue, whether or not
\* the submission succeeded.
C2_NoMidFrameCancellation ==
    (Returned /\ log.n["reset_fences"] >= 1) =>
        /\ log.n["present"] = 1
        /\ log.n["clear_rendering"] = 1
        /\ log.n["frame_state_fini"] = 1
        /\ log.n["queue_wait_idle"] >= 1
        /\ comp_frame_is_invalid_locked(frame.rendering)

\* C3: a draw that finds the target not ready records exactly one begin, one
\* submit-begin and one submit-end mark, in that order and all for the id of
\* the frame it moved to rendering, clears the rendering slot and returns
\* XRT_SUCCESS.
C3_DiscardedFrameTiming ==
    Discarded =>
        /\ log.marks = << <<"mark_begin", next_id - 1>>,
                          <<"mark_submit_begin", next_id - 1>>,
                          <<"mark_submit_end", next_id - 1>> >>
        /\ log.n["clear_rendering"] = 1
        /\ log.id["clear_rendering"] = next_id - 1
        /\ comp_frame_is_invalid_locked(frame.rendering)
        /\ comp_frame_is_invalid_locked(frame.waited)
        /\ draw_ret = XrtSuccess

C3_Witness ==
    /\ Discarded
    /\ Len(log.marks) = 3
    /\ draw_ret = XrtSuccess

\* C4: the step of a draw that finds the target not ready makes no
\* create_images, acquire, queue submission, present, wait_for_present or
\* queue-idle wait, and leaves the renderer (acquired_buffer, fenced_buffer,
\* buffer_count, fences), the queue and the scratch rings unchanged.
C4_DiscardedFrameCondition ==
    [][(log.res["check_ready"] = "" /\ log'.res["check_ready"] = "not_ready") =>
          /\ r' = r
          /\ queue' = queue
          /\ scratch' = scratch
          /\ frame_state' = frame_state
          /\ acq' = acq
          /\ log'.n = [o \in Ops |-> IF o \in {"check_ready", "clear_rendering"}
                                     THEN 1 ELSE 0]]_vars

C4_Witness ==
    /\ Discarded
    /\ r.acquired_buffer >= 0
    /\ r.buffer_count > 0

\* The draw in progress acquired its image itself, its first acquire was
\* stale and its second succeeded, on a target that had images on entry; the
\* fence reset and the submission succeeded.
C5_Case ==
    /\ pc \in {"present", "wait_idle"}
    /\ acq.by = "draw"
    /\ acq.pre_images
    /\ Len(acq.results) >= 2
    /\ acq.results[1] \in Stale
    /\ acq.results[2] = VkSuccess

C5_Recovered ==
    /\ acq.n["create_images"] = 1
    /\ Len(acq.results) = 2
    /\ log.idx[DispatchOp] = acq.index
    /\ log.n["queue_submit"] = 1
    /\ log.idx["queue_submit"] = acq.index
    /\ log.res["queue_submit"] = VkSuccess
    /\ pc = "wait_idle" => log.n["present"] = 1 /\ log.idx["present"] = acq.index

\* C5: with a ready target that has images and a renderer that has its
\* renderings and fences (buffer_count > 0), a stale first acquire followed
\* by a successful second one makes the renderer call create_images exactly
\* once and acquire exactly twice, render into the index of the second
\* acquire, and submit and present that image.
C5_StaleAcquireRecovery == (C5_Case /\ acq.pre_count > 0) => C5_Recovered

C5_Witness ==
    /\ C5_Case
    /\ acq.pre_count > 0
    /\ pc = "wait_idle"
    /\ log.res["present"] = VkSuccess

\* C5 as claimed: the same for every ready target that already has images.
C5_AsClaimed == C5_Case => C5_Recovered

\* C6: when the acquire after the forced recreate fails too, the frame is
\* dropped: no image is recorded as acquired and the draw resets no fence,
\* submits nothing and presents nothing.
C6_DoubleStaleDrop ==
    (/\ acq.by = "draw"
     /\ Len(acq.results) = 2
     /\ acq.results[1] \in Stale
     /\ acq.results[2] # VkSuccess) =>
        /\ r.acquired_buffer < 0
        /\ log.n["reset_fences"] = 0
        /\ log.n["queue_submit"] = 0
        /\ log.n["present"] = 0

\* C7: whenever comp_renderer_draw is about to dispatch or to submit,
\* acquired_buffer is in [0, buffer_count) and the renderings and fences of
\* that index exist.
C7_IndexBeforeDispatch ==
    pc \in {"dispatch", "submit"} => ValidBuffer(World(FALSE), r.acquired_buffer)

\* C8: after a stale present the renderer has run the resize path once (one
\* forced recreate behind a queue-idle wait if the target is ready, otherwise
\* only the renderings and fences are closed), has not presented again and
\* holds no acquired image; the draw completes and returns what the debug
\* mirror left in xret, XRT_SUCCESS unless its blit failed.
C8_StalePresent ==
    /\ (pc = "wait_idle" /\ log.res["present"] \in Stale) =>
          /\ log.n["present"] = 1
          /\ r.acquired_buffer = INVALID
          /\ r.fenced_buffer = INVALID
          /\ IF ct.ready
             THEN log.n["create_images"] = 1 /\ log.n["queue_wait_idle"] = 1
             ELSE /\ log.n["create_images"] = 0
                  /\ log.n["queue_wait_idle"] = 0
                  /\ r.buffer_count = 0
                  /\ r.fences = <<>>
    /\ (Returned /\ log.res["present"] \in Stale) =>
          /\ log.n["present"] = 1
          /\ log.n["create_images"] <= 1
          /\ draw_ret = local.xret

C8_Witness ==
    /\ Returned
    /\ draw_ret = XrtSuccess
    /\ log.res["present"] = VkOutOfDate
    /\ log.n["create_images"] = 0
    /\ r.buffer_count = 0

\* C8 as claimed: after a stale present the draw does not present again and
\* returns success.
C8_AsClaimed ==
    (Returned /\ log.res["present"] \in Stale) =>
        log.n["present"] = 1 /\ draw_ret = XrtSuccess

\* The draw that returned had its fence reset or its queue submission fail.
GraphicsFailure ==
    \/ log.res["reset_fences"] \notin {"", VkSuccess}
    \/ log.res["queue_submit"] \notin {"", VkSuccess}

\* C9: comp_renderer_draw returns XRT_ERROR_VULKAN exactly when the fence
\* reset, the queue submission or the debug mirror's blit failed; whatever
\* the target's check_ready, acquire, present and wait_for_present did is
\* absorbed and the draw returns XRT_SUCCESS.
C9_ErrorPropagation ==
    Returned =>
        /\ draw_ret \in {XrtSuccess, XrtErrorVulkan}
        /\ draw_ret = XrtErrorVulkan <=>
              (GraphicsFailure \/ local.xret = XrtErrorVulkan)

C9_Witness ==
    /\ Returned
    /\ draw_ret = XrtSuccess
    /\ log.res["present"] = VkDeviceLost
    /\ log.res["wait_for_present"] = VkTimeout

\* C9 as claimed: draw returns a non-success status only when the fence
\* reset or the queue submission failed.
C9_AsClaimed == (Returned /\ draw_ret # XrtSuccess) => GraphicsFailure

\* C10: no fence is reset or handed to a submission while an earlier
\* submission that signals it is pending; at most one submission with a fence
\* of the renderer is pending; fenced_buffer names a fence only after a
\* successful submission with it (the fence is pending or signaled), it is
\* the index just submitted, and it is not set when the draw failed.
C10_FenceGuardedReuse ==
    /\ ~log.busy
    /\ Cardinality({s \in queue : s.live}) <= 1
    /\ r.fenced_buffer >= 0 =>
          /\ ValidBuffer(World(FALSE), r.fenced_buffer)
          /\ \/ r.fences[r.fenced_buffer + 1] = "signaled"
             \/ FenceBusy(World(FALSE), r.fenced_buffer)
    /\ pc = "present" =>
          /\ log.res["queue_submit"] = VkSuccess
          /\ r.fenced_buffer = log.idx["queue_submit"]
    /\ (Returned /\ GraphicsFailure) => r.fenced_buffer = INVALID

C10_Witness ==
    /\ pc = "present"
    /\ log.n["wait_fence"] = 1
    /\ log.idx["wait_fence"] = log.idx["queue_submit"]
    /\ r.fenced_buffer = log.idx["queue_submit"]

\* fences[i] was reset, or never signaled, and no pending submission will
\* signal it: a wait for it never returns.
FenceNeverSignaled(i) ==
    /\ ValidBuffer(World(FALSE), i)
    /\ r.fences[i + 1] = "unsignaled"
    /\ ~FenceBusy(World(FALSE), i)

\* C11: renderer_wait_for_last_fence never blocks for good: fenced_buffer
\* never names a fence that no submission will signal (not after a failed
\* fence reset or submission, not after the renderings and fences were closed
\* or recreated), and where the thread is about to wait, fenced_buffer is
\* negative or names a fence that is signaled or that a pending submission
\* signals.
C11_FenceWaitNoDeadlock ==
    /\ \A i \in 0 .. (MaxImages - 1) : FenceNeverSignaled(i) => r.fenced_buffer # i
    /\ r.fences = <<>> => r.fenced_buffer < 0
    /\ pc = "submit" => FenceWaitReturns(World(FALSE))

\* The thread is about to wait for the fence of the previous frame.
C11_Witness ==
    /\ pc = "submit"
    /\ r.fenced_buffer >= 0
    /\ ValidBuffer(World(FALSE), r.fenced_buffer)

\* C12: the renderer's fences and per-image resources are destroyed only
\* when no queue submission that uses them is pending.
C12_DestroyOnlyWhenIdle ==
    /\ \A s \in queue : s.live
    /\ log.res["destroy_fences"] # "in_use"

\* The positions of a stage in the record of the draw.
Pos(op) == {i \in DOMAIN log.order : log.order[i] = op}

\* Every b comes after some a.
After(a, b) == \A j \in Pos(b) : \E i \in Pos(a) : i < j

\* A queue-idle wait that follows the clearing of the rendering slot
\* precedes position p.
AfterFrameWait(p) ==
    \E c \in Pos("clear_rendering"), q \in Pos("queue_wait_idle") : c < q /\ q < p

\* The draw in progress or just returned found the target ready.
NotDiscarded == log.res["check_ready"] = "ready"

StrictlyIncreasing(seq) ==
    \A i, j \in DOMAIN seq : i < j => seq[i] < seq[j]

\* C14: the ids handed to the target's present are strictly increasing: no
\* frame is presented twice and none out of order; each is the id of a frame
\* the frame loop handed out.
C14_PresentIdsIncreasing ==
    /\ StrictlyIncreasing(hist.presented)
    /\ \A i \in DOMAIN hist.presented : hist.presented[i] \in 0 .. (next_id - 1)

\* Both frames were presented.
C14_Witness ==
    /\ Len(hist.presented) = MaxFrames
    /\ pc = "wait_idle"

\* C15: the signal value of every queue submission is the id of the frame in
\* the rendering slot, which is valid and non-negative there; the value
\* handed to present is the value just submitted and the id of the frame in
\* the slot; the submitted values are strictly increasing.
C15_TimelineCorrelation ==
    /\ StrictlyIncreasing(hist.submitted)
    /\ \A i \in DOMAIN hist.submitted : hist.submitted[i] >= 0
    /\ \A i \in DOMAIN hist.presented :
          \E j \in DOMAIN hist.submitted : hist.submitted[j] = hist.presented[i]
    /\ pc = "present" =>
          /\ hist.submitted # <<>>
          /\ hist.submitted[Len(hist.submitted)] = frame.rendering
          /\ ~comp_frame_is_invalid_locked(frame.rendering)
    /\ pc = "wait_idle" =>
          /\ hist.presented # <<>>
          /\ hist.presented[Len(hist.presented)] = hist.submitted[Len(hist.submitted)]
          /\ hist.presented[Len(hist.presented)] = local.frame_id
    /\ fault \notin {"submit_frame_id_negative", "submit_rendering_invalid",
                      "present_rendering_invalid"}

\* A second frame was submitted and presented after a first one whose
\* submission failed.
C15_Witness ==
    /\ pc = "wait_idle"
    /\ hist.submitted = <<0, 1>>
    /\ hist.presented = <<1>>

\* The eager acquires of the draw: the images recorded as acquired after the
\* frame's queue-idle wait.
EagerAcquires == {p \in Pos("acquire") : AfterFrameWait(p)}

\* comp_renderer_draw has returned after it went through
\* renderer_wait_for_present.
Completed == Returned /\ log.res["wfp_check_ready"] # ""

\* C16: wait_for_present is called at most once per draw, only on a target
\* that supports it and was ready after present, with a timeout of 2.5 frame
\* intervals, and then nothing is acquired; on a ready target that does not
\* support it the renderer calls renderer_acquire_swapchain_image instead,
\* once, and an image it records as acquired is still held when draw
\* returns; on a target that is not ready it does neither.  The draw itself
\* acquires only while the renderer holds no image.
C16_WaitForPresentSelection ==
    /\ Cardinality(Pos("wait_for_present")) <= 1
    /\ ~ct.wait_for_present_supported => Pos("wait_for_present") = {}
    /\ Pos("wait_for_present") # {} =>
          /\ 2 * log.timeout <= 5 * FrameIntervalNs
          /\ 5 * FrameIntervalNs < 2 * log.timeout + 2
          /\ log.res["wfp_check_ready"] = "ready"
          /\ EagerAcquires = {}
    /\ Cardinality(EagerAcquires) <= 1
    /\ (Completed /\ log.res["wfp_check_ready"] = "not_ready") =>
          Pos("wait_for_present") = {} /\ EagerAcquires = {} /\ acq_ret = "draw"
    /\ (Completed /\ log.res["wfp_check_ready"] = "ready"
          /\ ct.wait_for_present_supported) =>
          Cardinality(Pos("wait_for_present")) = 1 /\ acq_ret = "draw"
    /\ (Completed /\ log.res["wfp_check_ready"] = "ready"
          /\ ~ct.wait_for_present_supported) =>
          /\ acq_ret = "wfp"
          /\ EagerAcquires # {} => r.acquired_buffer >= 0
    /\ (acq_ret = "draw" /\ pc \in {"acq_ensure", "acq_acquire", "acq_recreate",
                                     "acq_retry"}) => r.acquired_buffer < 0

\* The target was asked to wait, with the timeout of line 1199.
C16_Witness ==
    /\ Completed
    /\ Cardinality(Pos("wait_for_present")) = 1
    /\ log.timeout > 2 * FrameIntervalNs

\* C16 as claimed: on a ready target that does not support wait_for_present
\* the renderer acquires the next image, which the next draw finds acquired.
C16_AsClaimed ==
    (Completed /\ log.res["wfp_check_ready"] = "ready"
       /\ ~ct.wait_for_present_supported) =>
        Cardinality(EagerAcquires) = 1 /\ r.acquired_buffer >= 0

\* The pipeline the setting does not select.
OtherDispatchOp ==
    IF settings.use_compute THEN "dispatch_graphics" ELSE "dispatch_compute"

\* C17: a draw dispatches through the pipeline the use_compute setting
\* selects and never through the other one, at most once; a draw that is not
\* discarded and returns has dispatched once and has issued one queue
\* submission if its fence reset succeeded, none if it failed; the setting
\* never changes.
C17_OneSubmissionPerFrame ==
    /\ [](/\ log.n[OtherDispatchOp] = 0
          /\ log.n[DispatchOp] <= 1
          /\ log.n["queue_submit"] <= 1
          /\ log.n["queue_submit"] = 1 =>
                log.n[DispatchOp] = 1 /\ log.res["reset_fences"] = VkSuccess
          /\ (Returned /\ ~Discarded) =>
                /\ log.n[DispatchOp] = 1
                /\ log.n["reset_fences"] = 1
                /\ log.n["queue_submit"] = 1 <=> log.res["reset_fences"] = VkSuccess)
    /\ [][settings' = settings]_vars

\* A draw through the compute path returned after its one submission.
C17_Witness ==
    /\ Returned
    /\ settings.use_compute
    /\ log.n["dispatch_compute"] = 1
    /\ log.n["queue_submit"] = 1
    /\ next_id = MaxFrames

\* C17 as claimed: every draw that is not discarded issues exactly one queue
\* submission.
C17_AsClaimed == (Returned /\ ~Discarded) => log.n["queue_submit"] = 1

\* ------------------------------------------------ scratch image manager
\* The last two calls were chl_scratch_ensure with identical arguments.
EnsuredTwice ==
    /\ chl_calls.before.op = "ensure"
    /\ chl_calls.last.op = "ensure"
    /\ chl_calls.before.args = chl_calls.last.args

\* The last call returned true, created and released nothing and left the
\* structure as it found it.
LastCallDidNothing ==
    /\ chl_calls.last.ret
    /\ chl_calls.last.ev = <<>>
    /\ chl = chl_calls.last.pre

\* C18: when chl_scratch_ensure is called twice in a row with identical
\* (view_count, extent, format) and the first call returned true, the second
\* call returns true without freeing or allocating anything and leaves the
\* scratch state unchanged: allocation happens at most in the first call.
C18_EnsureIdempotent ==
    (EnsuredTwice /\ chl_calls.before.ret) => LastCallDidNothing

\* Two identical calls in a row, the first of which allocated the images of
\* every view and the second of which did nothing.
C18_Witness ==
    /\ EnsuredTwice
    /\ chl_calls.before.ret
    /\ chl_calls.before.allocated
    /\ LastCallDidNothing
    /\ chl.view_count = chl_calls.last.args.view_count
    /\ chl.view_count > 0
    /\ \A i \in 0 .. (chl.view_count - 1) : Images(i) \in chl.live

\* C18 as stated, whatever the first call returned: the second of two
\* identical calls returns true and does nothing.
C18_AsClaimed == EnsuredTwice => LastCallDidNothing

\* The structure records no configuration and holds no resource.
NothingAllocated(c) ==
    /\ c.view_count = 0
    /\ c.extent = Extent(0, 0)
    /\ c.format = VK_FORMAT_UNDEFINED
    /\ ~c.render_pass_initialized
    /\ c.live = {}

\* Every resource the call created was released by it afterwards, once, and
\* the call released nothing it did not hold nor created over a held one.
FreedExactlyOnce(ev) ==
    /\ \A j \in DOMAIN ev :
          ev[j].act = "alloc" =>
             Cardinality({m \in DOMAIN ev : /\ m > j
                                           /\ ev[m].act = "free"
                                           /\ ev[m].res = ev[j].res}) = 1
    /\ \A j \in DOMAIN ev : ev[j].held <=> (ev[j].act = "free")

\* C19: a chl_scratch_ensure that fails (at the render pass, or at the
\* images of view i after views 0..i-1 succeeded) returns false with nothing
\* left allocated: view_count = 0, extent = 0x0, format undefined,
\* render_pass_initialized = false, and every resource allocated during the
\* call freed exactly once.
C19_EnsureRollback ==
    (chl_calls.last.op = "ensure" /\ ~chl_calls.last.ret) =>
        /\ NothingAllocated(chl)
        /\ FreedExactlyOnce(chl_calls.last.ev)

\* A failed ensure that replaced an older allocation, had created the render
\* pass and the images and targets of a first view, and rolled them back.
C19_Witness ==
    /\ chl_calls.last.op = "ensure"
    /\ ~chl_calls.last.ret
    /\ chl_calls.last.pre.view_count > 0
    /\ \E j \in DOMAIN chl_calls.last.ev :
          /\ chl_calls.last.ev[j].act = "alloc"
          /\ chl_calls.last.ev[j].res = Target(0, COMP_SCRATCH_NUM_IMAGES - 1)
    /\ NothingAllocated(chl)

\* The call released each resource of the given set once and did nothing
\* else.
ReleasedAll(ev, held) ==
    /\ \A j \in DOMAIN ev : ev[j].act = "free" /\ ev[j].held
    /\ \A res \in held :
          Cardinality({j \in DOMAIN ev : ev[j].res = res}) = 1

\* C20: chl_scratch_free_resources releases the graphics resources
\* (per-view images, render targets, render pass) and resets the recorded
\* configuration: after the call view_count is 0, extent is 0x0 and format is
\* undefined, whatever they were before it.
C20_FreeResourcesResets ==
    chl_calls.last.op = "free_resources" =>
        /\ ReleasedAll(chl_calls.last.ev, chl_calls.last.pre.live)
        /\ NothingAllocated(chl)

\* A chl_scratch_free_resources on a structure holding every view's images.
C20_Witness ==
    /\ chl_calls.last.op = "free_resources"
    /\ chl_calls.last.pre.view_count = MaxScratchViews
    /\ chl_calls.last.pre.render_pass_initialized
    /\ Len(chl_calls.last.ev) = Cardinality(chl_calls.last.pre.live)
    /\ chl.live = {}
    /\ chl.view_count = 0

\* C20 as stated: the recorded view_count, extent and format are the same
\* after chl_scratch_free_resources as before it.
C20_AsClaimed ==
    chl_calls.last.op = "free_resources" =>
        /\ chl.view_count = chl_calls.last.pre.view_count
        /\ chl.extent = chl_calls.last.pre.extent
        /\ chl.format = chl_calls.last.pre.format

C22_OneSlotPerView ==
    [][(pc = "dispatch" /\ pc' # "dispatch")
          => \A v \in Views : scratch[v].current = INVALID]_vars

\* The resources the structure's fields say it holds.
Reachable(c) ==
    (IF c.render_pass_initialized THEN {RenderPass} ELSE {})
    \cup {Images(i) : i \in 0 .. (c.view_count - 1)}
    \cup {Target(i, k) : i \in 0 .. (c.view_count - 1),
                         k \in 0 .. (COMP_SCRATCH_NUM_IMAGES - 1)}

\* C23: after any sequence of chl_scratch_ensure calls (succeeding or
\* failing, with the same or different arguments) and
\* chl_scratch_free_resources, every image set, render target and render
\* pass is freed exactly once: no call creates a resource over one that is
\* held or releases one that is not held, what is held is exactly what
\* view_count and render_pass_initialized say (render_pass_initialized is
\* true exactly while a render pass is allocated), and after
\* chl_scratch_free_resources nothing is held.
C23_AllocationBalance ==
    /\ chl.render_pass_initialized <=> (RenderPass \in chl.live)
    /\ chl.live = Reachable(chl)
    /\ \A j \in DOMAIN chl_calls.last.ev :
          chl_calls.last.ev[j].held <=> (chl_calls.last.ev[j].act = "free")
    /\ chl_calls.last.op = "free_resources" => chl.live = {}

\* A chl_scratch_free_resources right after an ensure that allocated,
\* releasing the render pass and the targets that were held.
C23_Witness ==
    /\ chl_calls.before.op = "ensure"
    /\ chl_calls.before.allocated
    /\ chl_calls.last.op = "free_resources"
    /\ Target(0, 0) \in chl_calls.last.pre.live
    /\ RenderPass \in chl_calls.last.pre.live
    /\ chl.live = {}

\* ---------------------------------------------------------- the peek window
\* The sizes the window can have.
PeekSizes == {1, 2}

\* The results of the Vulkan calls of the blit.
PeekResults == {"VK_SUCCESS", "VK_ERROR_DEVICE_LOST"}

\* The events SDL_PollEvent hands to the window thread ("none": no event is
\* pending).  SDL_WINDOWEVENT_MOVED and _DISPLAY_CHANGED write the size as
\* SDL_WINDOWEVENT_SIZE_CHANGED does.
PeekEvents == {"none", "SDL_QUIT", "HIDDEN", "SHOWN", "SIZE_CHANGED", "SDLK_ESCAPE"}

\* The positions of the render thread inside comp_window_peek_blit.
InBlit == {"peek_cmp_width", "peek_cmp_height", "peek_extent_width", "peek_create_images", "peek_check_ready", "peek_acquire", "peek_pool_lock", "peek_dst_width", "peek_record", "peek_submit_lock", "peek_submit", "peek_present_lock", "peek_present"}

\* os_mutex_lock(&vk->queue_mutex) left out.
os_mutex_lock_nothing(p, who) == p

\* os_mutex_lock(&vk->queue_mutex) by the thread who.
os_mutex_lock(p, who) == [p EXCEPT !.queue_mutex = who]

\* os_mutex_unlock(&vk->queue_mutex).
os_mutex_unlock(p) == [p EXCEPT !.queue_mutex = "none"]

\* vk_cmd_pool_lock(&w->pool) and vk_cmd_pool_unlock(&w->pool).
vk_cmd_pool_lock(p) == [p EXCEPT !.pool = "render"]

vk_cmd_pool_unlock(p) == [p EXCEPT !.pool = "none"]

\* create_images(): comp_target_create_images with the extent read from the
\* window; the target's images get the extent asked for.
create_images(p, width, height) == [p EXCEPT !.base.width = width, !.base.height = height]

\* The first test of comp_window_peek_blit: w->hidden || !w->running.
peek_blit_skips(p) == p.hidden \/ ~p.running

\* The size test of comp_window_peek_blit, never true.
peek_size_differs_never(size, base) == FALSE

\* One operand of the size test of comp_window_peek_blit.
peek_size_differs(size, base) == size # base

\* comp_window_peek_create: the window has its first size, the images were
\* created with it and the window thread was started.
comp_window_peek_create(width, height) ==
    [NoPeek EXCEPT !.alive = TRUE, !.width = width, !.height = height,
                   !.base = [width |-> width, height |-> height],
                   !.thread = "start"]

\* The state after comp_window_peek_create, nothing else running.
InitPeek ==
    /\ NoRenderer("peek_idle")
    /\ dit = NoTarget
    /\ dit_log = NoTargetLog
    /\ \E width \in PeekSizes, height \in PeekSizes :
          peek = comp_window_peek_create(width, height)
    /\ peek_log = NoPeekLog /\ lag = NoLag /\ uls = NoStats /\ rift = NoReport

\* One step of the peek window or of a thread beside it.
PeekStep(p, l, next) ==
    /\ peek' = p
    /\ peek_log' = l
    /\ pc' = next
    /\ UNCHANGED <<settings, acq_ret, frame, next_id, r, ct, queue, scratch,
                   frame_state, local, acq, log, draw_ret, hist, chl,
                   chl_calls, dit, dit_log, lag, uls, rift, fault>>

\* The window thread wrote a size: noted when a blit is running.
SizeWritten(l) == [l EXCEPT !.size_written = @ \/ (pc \in InBlit)]

\* window_peek_run_thread, its first statement.
PeekThreadStart ==
    /\ peek.thread = "start"
    /\ PeekStep([peek EXCEPT !.running = TRUE, !.thread = "set_hidden"], peek_log, pc)

PeekThreadSetHidden ==
    /\ peek.thread = "set_hidden"
    /\ PeekStep([peek EXCEPT !.hidden = FALSE, !.thread = "loop"], peek_log, pc)

\* while (w->running)
PeekThreadLoop ==
    /\ peek.thread = "loop"
    /\ PeekStep([peek EXCEPT !.thread = IF peek.running THEN "poll" ELSE "exited"], peek_log, pc)

\* while (SDL_PollEvent(&event)) and the switch over the event.
PeekThreadEvent ==
    /\ peek.thread = "poll"
    /\ \E ev \in PeekEvents, width \in PeekSizes, height \in PeekSizes :
          /\ ev # "SIZE_CHANGED" => (width = 1 /\ height = 1)
          /\ CASE ev = "none" -> PeekStep([peek EXCEPT !.thread = "loop"], peek_log, pc)
               [] ev \in {"SDL_QUIT", "SDLK_ESCAPE"} -> PeekStep([peek EXCEPT !.running = FALSE], peek_log, pc)
               [] ev = "HIDDEN" -> PeekStep([peek EXCEPT !.hidden = TRUE], peek_log, pc)
               [] ev = "SHOWN" -> PeekStep([peek EXCEPT !.hidden = FALSE], peek_log, pc)
               [] ev = "SIZE_CHANGED" ->
                    PeekStep([peek EXCEPT !.width = width, !.event_height = height, !.thread = "write_height"],
                             SizeWritten(peek_log), pc)

\* w->height = event.window.data2
PeekThreadWriteHeight ==
    /\ peek.thread = "write_height"
    /\ PeekStep([peek EXCEPT !.height = peek.event_height, !.event_height = 0, !.thread = "poll"],
                SizeWritten(peek_log), pc)

\* comp_window_peek_blit is called: the first test.
PeekBlit ==
    /\ pc = "peek_idle"
    /\ peek.alive
    /\ IF peek_blit_skips(peek)
         THEN PeekStep(peek, [NoPeekLog EXCEPT !.skipped = TRUE], "peek_idle")
         ELSE PeekStep(peek, NoPeekLog, "peek_cmp_width")

\* w->width != w->base.base.width ||
PeekCompareWidth ==
    /\ pc = "peek_cmp_width"
    /\ PeekStep(peek, peek_log, IF peek_size_differs(peek.width, peek.base.width) THEN "peek_extent_width" ELSE "peek_cmp_height")

\* w->height != w->base.base.height
PeekCompareHeight ==
    /\ pc = "peek_cmp_height"
    /\ PeekStep(peek, peek_log, IF peek_size_differs(peek.height, peek.base.height) THEN "peek_extent_width" ELSE "peek_check_ready")

\* create_images: .extent = {w->width,
PeekExtentWidth ==
    /\ pc = "peek_extent_width"
    /\ PeekStep([peek EXCEPT !.blit.extent_w = peek.width], peek_log, "peek_create_images")

\* create_images: w->height} and comp_target_create_images.
PeekCreateImages ==
    /\ pc = "peek_create_images"
    /\ PeekStep(create_images(peek, peek.blit.extent_w, peek.height),
                [peek_log EXCEPT !.recreated = TRUE], "peek_check_ready")

\* while (!comp_target_check_ready(&w->base.base)) ; with the answer of the
\* target, which is not the window's to decide.
PeekCheckReady ==
    /\ pc = "peek_check_ready"
    /\ \E ready \in BOOLEAN :
          IF ready
            THEN PeekStep(peek, peek_log, "peek_acquire")
            ELSE PeekStep(peek, [peek_log EXCEPT !.not_ready = TRUE], "peek_check_ready")

\* comp_target_acquire(&w->base.base, &current): a failure is logged only and
\* leaves current uninitialized.
PeekAcquire ==
    /\ pc = "peek_acquire"
    /\ \E ret \in PeekResults, current \in 0 .. MaxImages :
          /\ ret = "VK_SUCCESS" => current < MaxImages
          /\ PeekStep([peek EXCEPT !.blit.current = current, !.blit.ret = ret], peek_log, "peek_pool_lock")

\* vk_cmd_pool_lock, vkBeginCommandBuffer and the first barriers.
PeekPoolLock ==
    /\ pc = "peek_pool_lock"
    /\ peek.pool = "none"
    /\ PeekStep(vk_cmd_pool_lock(peek), [peek_log EXCEPT !.work = @ \cup {"begin"}], "peek_dst_width")

\* blit.dstOffsets[1].x = w->width
PeekDstWidth ==
    /\ pc = "peek_dst_width"
    /\ PeekStep([peek EXCEPT !.blit.dst_w = peek.width], peek_log, "peek_record")

\* blit.dstOffsets[1].y = w->height, vkCmdBlitImage, the last barriers and
\* vkEndCommandBuffer, which unlocks the pool and returns when it fails.
PeekRecord ==
    /\ pc = "peek_record"
    /\ \E ret \in PeekResults :
          LET p == [peek EXCEPT !.blit.dst_h = peek.height]
              l == [peek_log EXCEPT !.work = @ \cup {"blit"}]
          IN IF ret # "VK_SUCCESS"
               THEN PeekStep([vk_cmd_pool_unlock(p) EXCEPT !.blit = NoBlit], l, "peek_idle")
               ELSE PeekStep(p, l, "peek_submit_lock")

\* vk_cmd_submit_locked takes the queue mutex,
PeekSubmitLock ==
    /\ pc = "peek_submit_lock"
    /\ peek.queue_mutex = "none"
    /\ PeekStep(os_mutex_lock(peek, "render"), peek_log, "peek_submit")

\* submits and releases it; then vk_cmd_pool_unlock and the check of the
\* result.
PeekSubmit ==
    /\ pc = "peek_submit"
    /\ \E ret \in PeekResults :
          IF ret # "VK_SUCCESS"
            THEN PeekStep([vk_cmd_pool_unlock(os_mutex_unlock(peek)) EXCEPT !.blit = NoBlit],
                          [peek_log EXCEPT !.work = @ \cup {"submit"}], "peek_idle")
            ELSE PeekStep(vk_cmd_pool_unlock(os_mutex_unlock(peek)),
                          [peek_log EXCEPT !.work = @ \cup {"submit"}], "peek_present_lock")

\* os_mutex_lock(&vk->queue_mutex)
PeekPresentLock ==
    /\ pc = "peek_present_lock"
    /\ peek.queue_mutex = "none"
    /\ PeekStep(os_mutex_lock(peek, "render"), peek_log, "peek_present")

\* vkQueuePresentKHR, os_mutex_unlock and the return.
PeekPresent ==
    /\ pc = "peek_present"
    /\ \E ret \in PeekResults :
          PeekStep([os_mutex_unlock(peek) EXCEPT !.blit = NoBlit],
                   [peek_log EXCEPT !.work = @ \cup {IF ret = "VK_SUCCESS" THEN "present" ELSE "present_failed"}], "peek_idle")

\* renderer_wait_queue_idle: os_mutex_lock(&vk->queue_mutex)
RendererWaitQueueIdleLock ==
    /\ pc = "peek_idle"
    /\ peek.alive
    /\ peek.queue_mutex = "none"
    /\ PeekStep(os_mutex_lock(peek, "render"), peek_log, "wait_queue_idle")

\* renderer_wait_queue_idle: vkQueueWaitIdle and os_mutex_unlock.
RendererWaitQueueIdle ==
    /\ pc = "wait_queue_idle"
    /\ PeekStep(os_mutex_unlock(peek), peek_log, "peek_idle")

\* comp_window_peek_destroy: w->running = false
PeekDestroy ==
    /\ pc = "peek_idle"
    /\ peek.alive
    /\ PeekStep([peek EXCEPT !.running = FALSE], peek_log, "peek_join")

\* os_thread_helper_destroy joins the window thread.
PeekJoin ==
    /\ pc = "peek_join"
    /\ peek.thread = "exited"
    /\ PeekStep(peek, peek_log, "peek_destroy_lock")

\* os_mutex_lock(&vk->queue_mutex)
PeekDestroyLock ==
    /\ pc = "peek_destroy_lock"
    /\ peek.queue_mutex = "none"
    /\ PeekStep(os_mutex_lock(peek, "render"), peek_log, "peek_device_wait_idle")

\* vkDeviceWaitIdle and os_mutex_unlock.
PeekDeviceWaitIdle ==
    /\ pc = "peek_device_wait_idle"
    /\ PeekStep(os_mutex_unlock(peek), peek_log, "peek_free_cmd")

\* vk_cmd_pool_lock, vkFreeCommandBuffers, vk_cmd_pool_unlock, and the rest
\* of comp_window_peek_destroy.
PeekFreeCommandBuffers ==
    /\ pc = "peek_free_cmd"
    /\ peek.pool = "none"
    /\ PeekStep([vk_cmd_pool_unlock(vk_cmd_pool_lock(peek)) EXCEPT !.alive = FALSE], peek_log, "peek_destroyed")

\* Another thread takes the queue mutex for an operation of its own,
OtherLock ==
    /\ peek.other = "idle"
    /\ peek.alive
    /\ peek.queue_mutex = "none"
    /\ PeekStep([os_mutex_lock(peek, "other") EXCEPT !.other = "queue"], peek_log, pc)

\* and releases it.
OtherUnlock ==
    /\ peek.other = "queue"
    /\ PeekStep([os_mutex_unlock(peek) EXCEPT !.other = "idle"], peek_log, pc)

NextPeek ==
    \/ PeekThreadStart
    \/ PeekThreadSetHidden
    \/ PeekThreadLoop
    \/ PeekThreadEvent
    \/ PeekThreadWriteHeight
    \/ PeekBlit
    \/ PeekCompareWidth
    \/ PeekCompareHeight
    \/ PeekExtentWidth
    \/ PeekCreateImages
    \/ PeekCheckReady
    \/ PeekAcquire
    \/ PeekPoolLock
    \/ PeekDstWidth
    \/ PeekRecord
    \/ PeekSubmitLock
    \/ PeekSubmit
    \/ PeekPresentLock
    \/ PeekPresent
    \/ RendererWaitQueueIdleLock
    \/ RendererWaitQueueIdle
    \/ PeekDestroy
    \/ PeekJoin
    \/ PeekDestroyLock
    \/ PeekDeviceWaitIdle
    \/ PeekFreeCommandBuffers
    \/ OtherLock
    \/ OtherUnlock

SpecPeek == InitPeek /\ [][NextPeek]_vars

\* The positions at which the render thread is inside an operation on the
\* queue, is about to take the queue mutex, is about to take the pool lock,
\* and is outside blit, wait-idle and destroy.
InQueueOp == {"peek_submit", "peek_present", "wait_queue_idle", "peek_device_wait_idle"}

TakingQueueMutex == {"peek_submit_lock", "peek_present_lock", "peek_destroy_lock"}

TakingPoolLock == {"peek_pool_lock", "peek_free_cmd"}

OutsidePeekCalls == {"peek_idle", "peek_join", "peek_destroyed"}

C25_PeekNeverBlocks ==
    /\ peek_log.skipped => (peek_log.work = {} /\ pc \notin InBlit)
    /\ peek_log.not_ready => peek_log.work = {}

\* A step of the window thread that writes one of its four fields.
WindowThreadWrites ==
    /\ pc' = pc
    /\ \/ peek'.running # peek.running
       \/ peek'.hidden # peek.hidden
       \/ peek'.width # peek.width
       \/ peek'.height # peek.height

\* C26: the window thread writes running, hidden, width and height and
\* nothing else of the window, its target or the locks; and a blit that is
\* not skipped and during which no size is written acquires from images that
\* have the size of the window, having created them again first where the two
\* differed: only a blit that runs while the size is written can use images
\* of the old size.
C26_StaleSizeReconciled ==
    /\ [](pc = "peek_acquire" /\ ~peek_log.size_written => (peek.base.width = peek.width /\ peek.base.height = peek.height))
    /\ [][WindowThreadWrites => (peek'.base = peek.base /\ peek'.blit = peek.blit /\ peek'.pool = peek.pool /\ peek'.queue_mutex = peek.queue_mutex /\ peek'.alive = peek.alive /\ peek'.other = peek.other)]_vars

\* A blit that began after the window was resized is about to acquire: it
\* created the images again and they have the window's size.
C26_Witness ==
    /\ pc = "peek_acquire"
    /\ peek_log.recreated
    /\ ~peek_log.size_written
    /\ peek.thread = "poll"
    /\ peek.base = [width |-> peek.width, height |-> peek.height]

\* C27: once target_destroy has run, whatever had been called before it, the
\* Vulkan images were freed once if init_post_vulkan had run and not at all
\* otherwise; where they were freed the exported image count, images, extent
\* and format are cleared; and the scratch state and the pacer were each
\* destroyed exactly once.  Before it runs nothing is freed or destroyed.
C27_DestroySafe ==
    IF dit.alive
      THEN dit_log.freed = 0 /\ dit_log.destroyed = 0 /\ dit_log.pacer_destroyed = 0
      ELSE /\ dit_log.freed = (IF dit_log.pre.has_init_vulkan THEN 1 ELSE 0)
           /\ dit_log.pre.has_init_vulkan =>
                 /\ ~dit.target.images
                 /\ ~dit.has_init_vulkan
                 /\ dit.image_count = 0
                 /\ dit.images = FALSE
                 /\ dit.width = 0 /\ dit.height = 0
                 /\ dit.format = VK_FORMAT_UNDEFINED
           /\ ~dit_log.pre.has_init_vulkan => ~dit.target.images
           /\ dit_log.destroyed = 1
           /\ dit_log.pacer_destroyed = 1
           /\ dit.target.state = "destroyed"
           /\ dit.upc = "destroyed"

\* The target was destroyed after create_images had given it images.
C27_Witness ==
    /\ ~dit.alive
    /\ dit_log.pre.has_init_vulkan
    /\ dit_log.pre.images
    /\ dit_log.pre.width > 0
    /\ dit_log.freed = 1
    /\ dit.image_count = 0

\* ------------------------------------------------- the frame-lag warning
\* One millisecond in nanoseconds.
U_TIME_1MS_IN_NS == 1000000

\* The clock readings tried: around one and two milliseconds.
LagTimes == {0, 1, U_TIME_1MS_IN_NS, U_TIME_1MS_IN_NS + 1, 2 * U_TIME_1MS_IN_NS, 2 * U_TIME_1MS_IN_NS + 1}

\* The test of lines 1230-1231 without its first operand.
lag_warning_late_only(before_ns, desired_present_time_ns, after_ns) == desired_present_time_ns + U_TIME_1MS_IN_NS < after_ns

\* Lines 1230-1231: the wait took more than a millisecond and it ended more
\* than a millisecond after the desired present time.
lag_warning(before_ns, desired_present_time_ns, after_ns) == before_ns + U_TIME_1MS_IN_NS < after_ns /\ desired_present_time_ns + U_TIME_1MS_IN_NS < after_ns

\* renderer_wait_for_present has been called with a desired present time, on
\* a ready target, and has read before_ns (line 1195).
InitLag ==
    /\ NoRenderer("lag_wait")
    /\ dit = NoTarget
    /\ dit_log = NoTargetLog
    /\ peek = NoPeek
    /\ peek_log = NoPeekLog
    /\ uls = NoStats
    /\ rift = NoReport
    /\ \E before_ns \in LagTimes, desired \in LagTimes :
          lag = [NoLag EXCEPT !.before_ns = before_ns, !.desired_present_time_ns = desired]

\* Lines 1197-1224: the wait, and after_ns read from the monotonic clock.
LagWait ==
    /\ pc = "lag_wait"
    /\ \E after_ns \in LagTimes :
          /\ after_ns >= lag.before_ns
          /\ lag' = [lag EXCEPT !.after_ns = after_ns]
    /\ pc' = "lag_check"
    /\ UNCHANGED <<settings, acq_ret, frame, next_id, r, ct, queue, scratch,
                   frame_state, local, acq, log, draw_ret, hist, chl,
                   chl_calls, dit, dit_log, peek, peek_log, uls, rift, fault>>

\* Lines 1226-1236: the test and LOG_FRAME_LAG; the function returns.
LagCheck ==
    /\ pc = "lag_check"
    /\ lag' = [lag EXCEPT !.warned = lag_warning(lag.before_ns, lag.desired_present_time_ns, lag.after_ns)]
    /\ pc' = "lag_done"
    /\ UNCHANGED <<settings, acq_ret, frame, next_id, r, ct, queue, scratch,
                   frame_state, local, acq, log, draw_ret, hist, chl,
                   chl_calls, dit, dit_log, peek, peek_log, uls, rift, fault>>

NextLag ==
    \/ LagWait
    \/ LagCheck

SpecLag == InitLag /\ [][NextLag]_vars

\* C28 as stated: whenever the wait ended more than a millisecond after the
\* desired present time, the warning was logged.
C28_WarnedWheneverLate ==
    pc = "lag_done" /\ lag.after_ns > lag.desired_present_time_ns + U_TIME_1MS_IN_NS => lag.warned

\* C28: the warning is logged exactly when the wait ended more than a
\* millisecond after the desired present time and had itself taken more than
\* a millisecond; the test changes nothing of the renderer, its target or the
\* status draw returns.
C28_LagWarning ==
    /\ [](pc = "lag_done" =>
            (lag.warned <=> (/\ lag.after_ns - lag.desired_present_time_ns > U_TIME_1MS_IN_NS
                             /\ lag.after_ns - lag.before_ns > U_TIME_1MS_IN_NS)))
    /\ [](pc # "lag_done" => ~lag.warned)
    /\ [][pc = "lag_check" => (r' = r /\ ct' = ct /\ queue' = queue /\ local' = local /\ draw_ret' = draw_ret /\ frame' = frame)]_vars

\* The wait ended two milliseconds after the desired present time but took
\* less than one itself: no warning.
C28_Witness ==
    /\ pc = "lag_done"
    /\ lag.desired_present_time_ns = 0
    /\ lag.before_ns = 2 * U_TIME_1MS_IN_NS
    /\ lag.after_ns = 2 * U_TIME_1MS_IN_NS + 1
    /\ ~lag.warned

\* A record of calls without what it holds of info_gpu.
WithoutInfoGpu(l) == [l EXCEPT !.n["info_gpu"] = 0, !.id["info_gpu"] = INVALID]

\* The world comp_renderer_draw leaves at lines 1549-1555 when there are no
\* timestamps.
AfterWaitIdle ==
    Logged(renderer_wait_queue_idle(World(FALSE)), Ev("frame_state_fini", "", INVALID, local.frame_id))

\* C29: info_gpu is called only in the step of draw that follows the
\* queue-idle wait, once, only if the mirror left XRT_SUCCESS, and with the
\* id of the frame whose rendering slot was cleared after the present; apart
\* from the record of that call the step leaves the same state and the same
\* status to return whether or not there are timestamps.
C29_InfoGpuOptional ==
    [][/\ log'.n["info_gpu"] > log.n["info_gpu"] =>
             /\ pc = "wait_idle"
             /\ log'.n["info_gpu"] = log.n["info_gpu"] + 1
             /\ local.xret = XrtSuccess
             /\ log.n["present"] > 0
             /\ log'.id["info_gpu"] = log.id["clear_rendering"]
             /\ comp_frame_is_invalid_locked(frame.rendering)
       /\ (pc = "wait_idle" /\ pc' # pc) =>
             /\ r' = AfterWaitIdle.r /\ ct' = AfterWaitIdle.ct /\ queue' = AfterWaitIdle.queue
             /\ WithoutInfoGpu(log') = WithoutInfoGpu(AfterWaitIdle.log)
             /\ local' = local /\ draw_ret' = draw_ret /\ frame' = frame
             /\ scratch' = chl_scratch_state_discard_or_done(frame_state.used, scratch, ViewCount)
             /\ pc' \in {"wfp", "crashed"}]_vars

\* The second frame was presented, its slot cleared, and info_gpu was called
\* with its id.
C29_Witness ==
    /\ pc = "wfp"
    /\ log.n["info_gpu"] = 1
    /\ log.id["info_gpu"] = 1
    /\ log.id["clear_rendering"] = 1
    /\ local.xret = XrtSuccess
    /\ comp_frame_is_invalid_locked(frame.rendering)

\* C30: the renderer never calls acquire while it holds an image, and when
\* it presents after an acquire made in the same draw, that acquire's last
\* comp_target_acquire succeeded and the index presented is the one it
\* returned.
C30_AcquirePresentAlternation ==
    /\ fault # "acquire_while_acquired"
    /\ (pc = "present" /\ acq.by = "draw") =>
          /\ acq.results # <<>>
          /\ acq.results[Len(acq.results)] = VkSuccess
          /\ r.acquired_buffer = acq.index

\* C31: when comp_renderer_draw has returned, the timing marks of its frame
\* are begin, submit-begin and submit-end, once each, in that order and with
\* one frame id.
C31_MarksBalanced ==
    (pc = "idle" /\ log.marks # <<>>) =>
        /\ Len(log.marks) = 3
        /\ log.marks[1][1] = "mark_begin"
        /\ log.marks[2] = <<"mark_submit_begin", log.marks[1][2]>>
        /\ log.marks[3] = <<"mark_submit_end", log.marks[1][2]>>

\* An index the renderer keeps: none, or one of its buffers.
BufferOrNone(i) == i = INVALID \/ (0 <= i /\ i < r.buffer_count)

AllViews == 0 .. (MaxScratchViews - 1)

\* What was called on each view by the last chl_scratch_state_discard_or_done,
\* with the used flags and the rings it found.
NoFrameCalls ==
    [calls |-> [v \in AllViews |-> "none"], used |-> [v \in AllViews |-> FALSE],
     pre |-> [v \in AllViews |-> [current |-> INVALID, last |-> INVALID]], ended |-> FALSE]

\* The scratch images were ensured for some number of views; no frame is in
\* progress.
InitFrame ==
    /\ settings = [use_compute |-> FALSE]
    /\ pc = "frame_idle"
    /\ acq_ret = "draw"
    /\ frame = [waited |-> INVALID, rendering |-> INVALID]
    /\ next_id = 0
    /\ LET w == renderer_init(FALSE, TRUE, "calls") IN
          /\ r = w.r
          /\ ct = w.ct
          /\ queue = w.queue
          /\ fault = w.fault
    /\ local = NoLocal
    /\ acq = NoAcq
    /\ log = NoLog("calls")
    /\ draw_ret = "none"
    /\ \E view_count \in 0 .. MaxScratchViews :
          chl = chl_scratch_ensure(Entered(chl_scratch_init), view_count, Extent(1, 1), VK_FORMAT_R8G8B8A8_SRGB, TRUE, view_count).c
    /\ chl_calls = NoFrameCalls
    /\ scratch = [v \in AllViews |-> [current |-> INVALID, last |-> INVALID]]
    /\ frame_state = [active |-> FALSE, used |-> [v \in AllViews |-> FALSE]]
    /\ dit = NoTarget
    /\ dit_log = NoTargetLog
    /\ peek = NoPeek
    /\ peek_log = NoPeekLog
    /\ lag = NoLag /\ uls = NoStats /\ rift = NoReport
    /\ hist = NoHist

\* chl_frame_state_init: chl_scratch_state_init_and_get.
FrameInitAndGet ==
    /\ pc = "frame_idle"
    /\ scratch' = chl_scratch_state_init_and_get(scratch, chl.view_count)
    /\ frame_state' = [active |-> TRUE, used |-> [v \in AllViews |-> FALSE]]
    /\ pc' = "frame_active"
    /\ UNCHANGED <<settings, acq_ret, frame, next_id, r, ct, queue, local, acq,
                   log, draw_ret, hist, chl, chl_calls, dit, dit_log, peek,
                   peek_log, lag, uls, rift, fault>>

\* The layer helpers render into the scratch image of a view and set its
\* used flag.
FrameUse ==
    /\ pc = "frame_active"
    /\ \E v \in AllViews :
          /\ v < chl.view_count
          /\ ~frame_state.used[v]
          /\ frame_state' = [frame_state EXCEPT !.used[v] = TRUE]
    /\ UNCHANGED <<settings, pc, acq_ret, frame, next_id, r, ct, queue, scratch,
                   local, acq, log, draw_ret, hist, chl, chl_calls, dit,
                   dit_log, peek, peek_log, lag, uls, rift, fault>>

\* chl_frame_state_fini: chl_scratch_state_discard_or_done and U_ZERO.
FrameDiscardOrDone ==
    /\ pc = "frame_active"
    /\ scratch' = chl_scratch_state_discard_or_done(frame_state.used, scratch, chl.view_count)
    /\ chl_calls' = [calls |-> [v \in AllViews |-> scratch_state_call(frame_state.used, v, chl.view_count)],
                     used |-> frame_state.used, pre |-> scratch, ended |-> TRUE]
    /\ frame_state' = [active |-> FALSE, used |-> [v \in AllViews |-> FALSE]]
    /\ pc' = "frame_idle"
    /\ UNCHANGED <<settings, acq_ret, frame, next_id, r, ct, queue, local, acq,
                   log, draw_ret, hist, chl, dit, dit_log, peek, peek_log,
                   lag, uls, rift, fault>>

NextFrame ==
    \/ FrameInitAndGet
    \/ FrameUse
    \/ FrameDiscardOrDone

SpecFrame == InitFrame /\ [][NextFrame]_vars

\* C33: when a frame has ended, on every view below view_count done was
\* called if its used flag was set and discard if not, on the other views
\* nothing; the state of the frame is zeroed; and the image a view got is the
\* one consumers see (the ring's last) exactly if the view was used.
C33_DoneOrDiscard ==
    (pc = "frame_idle" /\ chl_calls.ended) =>
        /\ \A v \in AllViews :
              /\ v < chl.view_count =>
                    /\ chl_calls.calls[v] = (IF chl_calls.used[v] THEN "done" ELSE "discard")
                    /\ chl_calls.pre[v].current # INVALID
                    /\ scratch[v].current = INVALID
                    /\ (scratch[v].last = chl_calls.pre[v].current) <=> chl_calls.used[v]
                    /\ ~chl_calls.used[v] => scratch[v].last = chl_calls.pre[v].last
              /\ v >= chl.view_count =>
                    /\ chl_calls.calls[v] = "none"
                    /\ scratch[v] = chl_calls.pre[v]
        /\ ~frame_state.active
        /\ \A v \in AllViews : ~frame_state.used[v]

\* A frame has ended in which view 0 was used and view 1 was not, after an
\* earlier frame: view 0 shows the new image, view 1 still the old one.
C33_Witness ==
    /\ pc = "frame_idle"
    /\ chl_calls.ended
    /\ chl.view_count = 2
    /\ chl_calls.calls = (0 :> "done" @@ 1 :> "discard")
    /\ chl_calls.pre[1].last # INVALID
    /\ scratch[0].last = chl_calls.pre[0].current
    /\ scratch[1].last = chl_calls.pre[1].last

\* ------------------------------------------------- ensure means allocated
\* What a structure ensured for view_count views holds: the shared render
\* pass and, for each view, its images and a target per image.
ResourcesFor(view_count) ==
    {RenderPass}
        \cup {Images(i) : i \in 0 .. (view_count - 1)}
        \cup {Target(i, k) : i \in 0 .. (view_count - 1),
                             k \in 0 .. (COMP_SCRATCH_NUM_IMAGES - 1)}

\* Everything the structure held on entry was released by the call before
\* the call created anything.
FreedBeforeAllocating(ev, held) ==
    \A res \in held :
        \E j \in DOMAIN ev :
            /\ ev[j].act = "free"
            /\ ev[j].res = res
            /\ \A m \in 1 .. j : ev[m].act = "free"

\* The call before the last one left the structure empty: it was a
\* chl_scratch_free_resources or a chl_scratch_ensure that returned false.
AfterFreeOrFailure ==
    \/ chl_calls.before.op = "free_resources"
    \/ chl_calls.before.op = "ensure" /\ ~chl_calls.before.ret

\* C34: chl_scratch_ensure returns true only when resources for exactly the
\* requested (view_count, extent, format) are allocated; after a
\* chl_scratch_free_resources or a failed ensure a following ensure
\* allocates again instead of taking the shortcut, and an ensure with
\* arguments other than the recorded ones frees all old resources before it
\* allocates new ones.
C34_EnsureMeansAllocated ==
    LET last == chl_calls.last IN
    (last.op = "ensure") =>
        /\ last.ret =>
              /\ chl.view_count = last.args.view_count
              /\ chl.extent = last.args.extent
              /\ chl.format = last.args.format
              /\ chl.render_pass_initialized
              /\ chl.live = ResourcesFor(last.args.view_count)
        /\ (last.ret /\ AfterFreeOrFailure) =>
              /\ last.pre.live = {}
              /\ {last.ev[j].res : j \in DOMAIN last.ev}
                    = ResourcesFor(last.args.view_count)
              /\ \A j \in DOMAIN last.ev : last.ev[j].act = "alloc"
        /\ ~chl_scratch_is_correct(last.pre, last.args.view_count, last.args.extent, last.args.format) =>
              /\ FreedBeforeAllocating(last.ev, last.pre.live)
              /\ \A j \in DOMAIN last.ev : last.ev[j].held <=> (last.ev[j].act = "free")

\* An ensure failed at the images of the second view; the ensure repeated
\* with the same arguments then allocated the render pass and every view.
C34_Witness ==
    /\ EnsuredTwice
    /\ ~chl_calls.before.ret
    /\ chl_calls.before.allocated
    /\ chl_calls.last.ret
    /\ chl_calls.last.args.view_count = MaxScratchViews
    /\ Len(chl_calls.last.ev) = Cardinality(ResourcesFor(MaxScratchViews))
    /\ chl.live = ResourcesFor(MaxScratchViews)

\* ------------------------------------------------------ format selection
R8G8B8A8 == {VK_FORMAT_R8G8B8A8_UNORM, VK_FORMAT_R8G8B8A8_SRGB}
B8G8R8A8 == {VK_FORMAT_B8G8R8A8_UNORM, VK_FORMAT_B8G8R8A8_SRGB}

\* The first entry of the list that is in the given set of formats.
FirstOf(formats, among) ==
    formats[CHOOSE i \in DOMAIN formats :
               /\ formats[i] \in among
               /\ \A j \in 1 .. (i - 1) : formats[j] \notin among]

\* UNORM or SRGB, as the entry says.
KindOf(format) ==
    IF format \in {VK_FORMAT_R8G8B8A8_UNORM, VK_FORMAT_B8G8R8A8_UNORM}
    THEN VK_FORMAT_R8G8B8A8_UNORM ELSE VK_FORMAT_R8G8B8A8_SRGB

\* The target holds the images of a target_create_images whose list named
\* one of the four formats, and no assertion failed.
ImagesCreated ==
    /\ dit.alive
    /\ dit.images
    /\ fault = "none"
    /\ \E i \in DOMAIN dit_log.formats : dit_log.formats[i] \in R8G8B8A8 \cup B8G8R8A8

\* C35: for every format list given to target_create_images, the first
\* R8G8B8A8_UNORM or R8G8B8A8_SRGB entry decides the exported format
\* whatever B8G8R8A8 entries come before it; without one, the first
\* B8G8R8A8 entry decides UNORM or SRGB; the exported format is one of the
\* two R8G8B8A8 formats, the exported views are of the same kind and
\* image_count is COMP_SCRATCH_NUM_IMAGES.
C35_FormatSelection ==
    ImagesCreated =>
        LET fs == dit_log.formats
            has_r == \E i \in DOMAIN fs : fs[i] \in R8G8B8A8
        IN /\ has_r => dit.format = FirstOf(fs, R8G8B8A8)
           /\ ~has_r => dit.format = KindOf(FirstOf(fs, B8G8R8A8))
           /\ dit.format \in R8G8B8A8
           /\ dit.view = (IF dit.format = VK_FORMAT_R8G8B8A8_UNORM
                          THEN "unorm_view" ELSE "srgb_view")
           /\ dit.image_count = COMP_SCRATCH_NUM_IMAGES

\* ------------------------------------------ stopping the window thread
\* SDL_PollEvent returns 0: the inner loop of window_peek_run_thread ends and
\* the thread goes back to test w->running (lines 79-81).
PeekThreadPollEmpty ==
    /\ peek.thread = "poll"
    /\ PeekStep([peek EXCEPT !.thread = "loop"], peek_log, pc)

\* The window thread from its start and comp_window_peek_destroy, with
\* nothing else running.
NextStop ==
    \/ PeekThreadStart
    \/ PeekThreadSetHidden
    \/ PeekThreadLoop
    \/ PeekThreadEvent
    \/ PeekThreadWriteHeight
    \/ PeekDestroy
    \/ PeekJoin
    \/ PeekDestroyLock
    \/ PeekDeviceWaitIdle
    \/ PeekFreeCommandBuffers

\* Both threads are scheduled: a thread that can take its next step takes
\* it, and the event queue is found empty again and again.  Whether the
\* compositor calls comp_window_peek_destroy, and which events arrive, is
\* left open.
StopFairness ==
    /\ WF_vars(PeekThreadStart)
    /\ WF_vars(PeekThreadSetHidden)
    /\ WF_vars(PeekThreadLoop)
    /\ SF_vars(PeekThreadPollEmpty)
    /\ WF_vars(PeekThreadWriteHeight)
    /\ WF_vars(PeekJoin)
    /\ WF_vars(PeekDestroyLock)
    /\ WF_vars(PeekDeviceWaitIdle)
    /\ WF_vars(PeekFreeCommandBuffers)

SpecStop == InitPeek /\ [][NextStop]_vars /\ StopFairness

\* C36: under every interleaving of the window thread's start-up with
\* comp_window_peek_destroy, once destroy has set running to false the window
\* thread eventually leaves its loop and the join in destroy returns.
C36_ShutdownTerminates ==
    (pc = "peek_join") ~> (peek.thread = "exited" /\ pc # "peek_join")

\* ------------------------------------------------- the region blitted to
\* C37: under every interleaving with the window thread's width/height
\* updates, the destination region of a comp_window_peek_blit (read from
\* w->width, w->height) equals the extent of the swapchain images that this
\* blit acquired and writes into.
C37_BlitDestination ==
    (pc \in {"peek_submit_lock", "peek_submit"}) =>
        /\ peek.blit.dst_w = peek.base.width
        /\ peek.blit.dst_h = peek.base.height

\* ------------------------------------------------ the image blitted to
\* C38: comp_window_peek_blit records, submits and presents work for image
\* index current only if its comp_target_acquire returned success, and every
\* image a blit acquired is presented by that blit before it returns.
C38_AcquiredImageOnly ==
    [][/\ (pc = "peek_pool_lock" /\ pc' # pc) => peek.blit.ret = "VK_SUCCESS"
       /\ (pc \in InBlit /\ pc' = "peek_idle" /\ peek.blit.ret = "VK_SUCCESS") =>
              "present" \in peek_log'.work]_vars

\* ------------------------------------------------------------ live stats
\* The recorded values: up to MaxValues of them, each at most MaxValue
\* nanoseconds; u_ls_ns_get_and_reset is called up to MaxCalls times.
MaxValues == 3
MaxValue == 3
MaxCalls == 2

RECURSIVE sort_insert(_, _)
sort_insert(s, x) ==
    IF s = <<>> THEN <<x>>
    ELSE IF x <= Head(s) THEN <<x>> \o s
    ELSE <<Head(s)>> \o sort_insert(Tail(s), x)

\* The values left in the order they were recorded in.
std_sort_nothing(s) == s

\* Line 33: std::sort(&uls->values[0], &uls->values[count]), ascending.
RECURSIVE std_sort(_)
std_sort(s) == IF s = <<>> THEN <<>> ELSE sort_insert(std_sort(Tail(s)), Head(s))

\* Lines 38-41: mean += uls->values[i] / count, for i from the given index.
RECURSIVE mean_from(_, _, _)
mean_from(values, i, count) ==
    IF i >= count THEN 0
    ELSE (values[i + 1] \div count) + mean_from(values, i + 1, count)

\* Lines 21-47.  The array is the sequence values (values[i] of the code is
\* values[i + 1] here); what lies behind the recorded values stays.
u_ls_ns_get_and_reset(s) ==
    LET count == s.value_count IN
    IF count = 0
    THEN [s EXCEPT !.out = [median |-> 0, mean |-> 0, worst |-> 0],
                   !.pre = <<>>, !.calls = @ + 1]
    ELSE LET sorted == std_sort(SubSeq(s.values, 1, count))
                           \o SubSeq(s.values, count + 1, Len(s.values))
         IN [s EXCEPT !.values = sorted,
                      !.value_count = 0,
                      !.out = [median |-> sorted[(count \div 2) + 1],
                               mean |-> mean_from(sorted, 0, count),
                               worst |-> sorted[count]],
                      !.pre = SubSeq(s.values, 1, count),
                      !.calls = @ + 1]

\* A struct with any values recorded, in any order.
InitStats ==
    /\ NoRenderer("stats")
    /\ dit = NoTarget
    /\ dit_log = NoTargetLog
    /\ peek = NoPeek
    /\ peek_log = NoPeekLog
    /\ lag = NoLag
    /\ rift = NoReport
    /\ \E n \in 0 .. MaxValues : \E values \in [1 .. n -> 0 .. MaxValue] :
          uls = [NoStats EXCEPT !.values = values, !.value_count = n]

StatsGetAndReset ==
    /\ pc = "stats"
    /\ uls.calls < MaxCalls
    /\ uls' = u_ls_ns_get_and_reset(uls)
    /\ UNCHANGED <<settings, pc, acq_ret, frame, next_id, r, ct, queue,
                   scratch, frame_state, local, acq, log, draw_ret, hist,
                   chl, chl_calls, dit, dit_log, peek, peek_log, lag, rift,
                   fault>>

NextStats == StatsGetAndReset

SpecStats == InitStats /\ [][NextStats]_vars

\* The least and the greatest of the values, how many of them are below a
\* value, and the sum of the values each divided by their number.
MinOf(values) == CHOOSE m \in {values[i] : i \in DOMAIN values} : \A i \in DOMAIN values : m <= values[i]
MaxOf(values) == CHOOSE m \in {values[i] : i \in DOMAIN values} : \A i \in DOMAIN values : m >= values[i]
Below(values, m) == Cardinality({i \in DOMAIN values : values[i] < m})
NotAbove(values, m) == Cardinality({i \in DOMAIN values : values[i] <= m})
RECURSIVE SumOfQuotients(_, _)
SumOfQuotients(values, count) ==
    IF values = <<>> THEN 0
    ELSE (Head(values) \div count) + SumOfQuotients(Tail(values), count)

\* What the claim says of a call apart from the bounds on the mean.
StatsAsComputed ==
    /\ uls.value_count = 0
    /\ uls.pre = <<>> => uls.out = [median |-> 0, mean |-> 0, worst |-> 0]
    /\ uls.pre # <<>> =>
          LET count == Len(uls.pre) IN
          /\ uls.out.worst = MaxOf(uls.pre)
          /\ Below(uls.pre, uls.out.median) <= count \div 2
          /\ NotAbove(uls.pre, uls.out.median) > count \div 2
          /\ uls.out.mean = SumOfQuotients(uls.pre, count)
          /\ MinOf(uls.pre) <= uls.out.median
          /\ uls.out.median <= uls.out.worst
    /\ uls.calls = MaxCalls => uls.out = [median |-> 0, mean |-> 0, worst |-> 0]

\* C39: with no recorded values u_ls_ns_get_and_reset returns (0, 0, 0);
\* otherwise worst is the greatest recorded value, median the element at
\* index count/2 of the sorted values, mean the sum of each value
\* integer-divided by count, with min <= median <= worst and
\* count * (min / count) <= mean <= worst; afterwards value_count is 0 and a
\* call repeated at once returns (0, 0, 0).
C39_GetAndReset ==
    (uls.calls > 0) =>
        /\ StatsAsComputed
        /\ uls.pre # <<>> =>
              /\ uls.out.mean <= uls.out.worst
              /\ Len(uls.pre) * (MinOf(uls.pre) \div Len(uls.pre)) <= uls.out.mean

\* Three values recorded out of order: the median is the middle one, and the
\* mean, each quotient rounded down, is below the least of them.
C39_Witness ==
    /\ uls.calls = 1
    /\ uls.pre = <<2, 1, 2>>
    /\ uls.out = [median |-> 2, mean |-> 0, worst |-> 2]
    /\ uls.values = <<1, 2, 2>>
    /\ uls.value_count = 0

\* C39 as stated: min <= mean <= worst as well.
C39_AsClaimed ==
    (uls.calls > 0) =>
        /\ StatsAsComputed
        /\ uls.pre # <<>> =>
              /\ MinOf(uls.pre) <= uls.out.mean
              /\ uls.out.mean <= uls.out.worst

\* --------------------------------------------------- rift feature reports
\* size_t is SizeBits wide and the report buffer holds REPORT_MAX_SIZE
\* bytes; report ids are 0 .. MaxReportId.
SizeBits == 4
REPORT_MAX_SIZE == 5
MaxReportId == 2

SizeModulus == 2 ^ SizeBits

\* The data the caller points at: data_length bytes counting up from fill.
ReportData(fill, data_length) == [i \in 1 .. data_length |-> (fill + i) % 256]

\* memcpy(buffer + length, ptr, ptr_len): the bytes that fall inside the
\* buffer; one that falls behind it is an overrun.
report_memcpy(b, ptr, ptr_len) ==
    [b EXCEPT !.buffer = [i \in 1 .. REPORT_MAX_SIZE |->
                             IF i > b.length /\ i <= b.length + ptr_len
                             THEN ptr[i - b.length] ELSE b.buffer[i]],
              !.overrun = @ \/ (b.length + ptr_len > REPORT_MAX_SIZE)]

\* REPORT_WRITE_DATA with its test written as length + ptr_len >
\* sizeof(buffer), the sum taken in size_t.
report_write_data_sum(b, ptr, ptr_len) ==
    IF b.failed THEN b
    ELSE IF (b.length + ptr_len) % SizeModulus > REPORT_MAX_SIZE
    THEN [b EXCEPT !.failed = TRUE]
    ELSE [report_memcpy(b, ptr, ptr_len)
            EXCEPT !.length = (b.length + ptr_len) % SizeModulus]

\* Lines 67-74, REPORT_WRITE_DATA: the test, which returns -1 from the
\* function, then memcpy and length += ptr_len, all in size_t.
report_write_data(b, ptr, ptr_len) ==
    IF b.failed THEN b
    ELSE IF ptr_len > (REPORT_MAX_SIZE - b.length) % SizeModulus
    THEN [b EXCEPT !.failed = TRUE]
    ELSE [report_memcpy(b, ptr, ptr_len)
            EXCEPT !.length = (b.length + ptr_len) % SizeModulus]

\* Lines 64-92.  The bytes of the local buffer start out undefined (INVALID
\* here); hid is what os_hid_set_feature returns.
rift_send_report(c, report_id, data, data_length, hid) ==
    LET b0 == [buffer |-> [i \in 1 .. REPORT_MAX_SIZE |-> INVALID],
               length |-> 0, overrun |-> FALSE, failed |-> FALSE]
        b1 == report_write_data(b0, <<report_id>>, 1)
        b2 == report_write_data(b1, data, data_length)
        done == [c EXCEPT !.called = TRUE, !.buffer = b2.buffer,
                          !.length = b2.length, !.overrun = b2.overrun]
    IN IF b2.failed THEN [done EXCEPT !.ret = -1]
       ELSE [done EXCEPT !.sent = SubSeq(b2.buffer, 1, b2.length),
                         !.sent_count = @ + 1,
                         !.ret = IF hid < 0 THEN hid ELSE 0]

\* A call about to be made, with any report id, any length of data and any
\* answer of the device.
InitRift ==
    /\ NoRenderer("rift")
    /\ dit = NoTarget
    /\ dit_log = NoTargetLog
    /\ peek = NoPeek
    /\ peek_log = NoPeekLog
    /\ lag = NoLag
    /\ uls = NoStats
    /\ \E report_id \in 0 .. MaxReportId, data_length \in 0 .. (SizeModulus - 1),
          fill \in {0, 1}, hid \in {-2, -1, 0, 1} :
          rift = [NoReport EXCEPT !.report_id = report_id,
                                  !.data_length = data_length,
                                  !.fill = fill, !.hid = hid]

RiftSendReport ==
    /\ pc = "rift"
    /\ ~rift.called
    /\ rift' = rift_send_report(rift, rift.report_id,
                                ReportData(rift.fill, rift.data_length),
                                rift.data_length, rift.hid)
    /\ UNCHANGED <<settings, pc, acq_ret, frame, next_id, r, ct, queue,
                   scratch, frame_state, local, acq, log, draw_ret, hist,
                   chl, chl_calls, dit, dit_log, peek, peek_log, lag, uls,
                   fault>>

NextRift == RiftSendReport

SpecRift == InitRift /\ [][NextRift]_vars

\* C40: for every report id and data_length, rift_send_report never writes
\* more than REPORT_MAX_SIZE bytes into its buffer; when 1 + data_length
\* exceeds REPORT_MAX_SIZE it returns -1 without sending anything to the
\* device, and otherwise it sends exactly 1 + data_length bytes with the
\* report id as the first byte.
C40_SendReportBounds ==
    rift.called =>
        /\ ~rift.overrun
        /\ rift.length <= REPORT_MAX_SIZE
        /\ (1 + rift.data_length > REPORT_MAX_SIZE) =>
              /\ rift.ret = -1
              /\ rift.sent_count = 0
              /\ rift.sent = <<>>
        /\ (1 + rift.data_length <= REPORT_MAX_SIZE) =>
              /\ rift.sent_count = 1
              /\ Len(rift.sent) = 1 + rift.data_length
              /\ rift.sent[1] = rift.report_id
              /\ \A i \in 1 .. rift.data_length :
                    rift.sent[i + 1] = ReportData(rift.fill, rift.data_length)[i]

\* A report that fills the buffer to its last byte was sent, and the device
\* took it.
C40_Witness ==
    /\ rift.called
    /\ rift.report_id = MaxReportId
    /\ rift.data_length = REPORT_MAX_SIZE - 1
    /\ Len(rift.sent) = REPORT_MAX_SIZE
    /\ rift.sent[REPORT_MAX_SIZE] = ReportData(rift.fill, rift.data_length)[rift.data_length]
    /\ rift.ret = 0

====
